---- MODULE Spec2Model ----
(***************************************************************************)
(* A model of the Kong Konnect developer-portal client: the KongApi class  *)
(* (api.ts), the devPortal operation handlers and the tool dispatcher of   *)
(* index.ts.                                                               *)
(*                                                                         *)
(* Strings that the code builds by concatenation (URLs, endpoints, header  *)
(* values, error messages) are sequences of string pieces; identifiers,    *)
(* tokens and names are single strings.  JavaScript's undefined is the     *)
(* distinguished value UNDEF (for a single string) or Undefined (for a     *)
(* built string); the empty string is "" or << >>.  A path separator "/"   *)
(* is a piece of its own, so that startsWith and replace see the same      *)
(* boundaries as the code does.                                            *)
(***************************************************************************)
EXTENDS Integers, Sequences, FiniteSets, TLC

VARIABLES
    build,              \* which copy of api.ts the client is: "part_000" or "part_001"
    adminBaseUrl,       \* KongApi.adminBaseUrl
    apiKey,             \* KongApi.apiKey
    env,                \* process.env: DEV_PORTAL_USER, DEV_PORTAL_PASSWORD
    portalBaseUrls,     \* KongApi.portalBaseUrls : Map portalId -> base URL
    portalAuthCookies,  \* KongApi.portalAuthCookies : Map portalId -> cookie string
    last,               \* the operation that has just run: its arguments, the upstream
                        \* responses it consumed, the requests it sent, its outcome;
                        \* Idle once the caller has taken the result
    issued,             \* per portal, the token of the latest successful login whose
                        \* response carried a portalaccesstoken cookie (observer)
    secrets             \* the API-key secrets generateApiKey has returned (observer)

vars == <<build, adminBaseUrl, apiKey, env, portalBaseUrls, portalAuthCookies, last,
          issued, secrets>>

-----------------------------------------------------------------------------
(* Bounds of the model *)

\* the longest list of specifications the discovery call returns
MaxSpecs == 2

\* the longest "data" array an admin portal listing returns
MaxListing == 2

\* the most Set-Cookie header values a login response carries
MaxSetCookie == 2

-----------------------------------------------------------------------------
(* JavaScript values *)

UNDEF == "<undefined>"
Undefined == <<UNDEF>>

\* truthiness of an optional single string: undefined and "" are falsy
Truthy(s) == s # UNDEF /\ s # ""

\* truthiness of an optional built string
TruthyStr(s) == s # Undefined /\ s # << >>

\* String.prototype.startsWith on piece boundaries
StartsWith(s, prefix) ==
    /\ Len(s) >= Len(prefix)
    /\ SubSeq(s, 1, Len(prefix)) = prefix

\* String.prototype.substring(0, n)
Substring0(s, n) == SubSeq(s, 1, IF Len(s) < n THEN Len(s) ELSE n)

RECURSIVE IndexOf(_, _, _)
\* String.prototype.indexOf: the first index >= i at which p occurs in s, or 0
IndexOf(s, p, i) ==
    IF i + Len(p) - 1 > Len(s) THEN 0
    ELSE IF SubSeq(s, i, i + Len(p) - 1) = p THEN i
    ELSE IndexOf(s, p, i + 1)

\* String.prototype.replace(p, ""): the first occurrence of p is removed
ReplaceFirst(s, p) ==
    LET i == IndexOf(s, p, 1)
    IN  IF i = 0 THEN s
        ELSE SubSeq(s, 1, i - 1) \o SubSeq(s, i + Len(p), Len(s))

(* JSON values as axios hands them over in response.data.  t is the       *)
(* JavaScript typeof class: "object" (a JSON object), "null" (typeof null  *)
(* is 'object' too), "string", "number".  An empty body is the string "".  *)
JBase == [t |-> "object", s |-> << >>, message |-> "", hasData |-> FALSE,
          data |-> << >>, success |-> FALSE, authentication |-> ""]

JNull == [JBase EXCEPT !.t = "null"]
JNum == [JBase EXCEPT !.t = "number"]
JUndefined == [JBase EXCEPT !.t = "undefined"]
JStr(str) == [JBase EXCEPT !.t = "string", !.s = str]
JObjMsg(m) == [JBase EXCEPT !.message = m]
JListing(portals) == [JBase EXCEPT !.hasData = TRUE, !.data = portals]

\* a listing that is the first page of several: meta.page tells total, size and number
JPagedListing(portals) ==
    JListing(portals) @@ [meta |-> [page |-> [total |-> "25", size |-> "10", number |-> "1"]]]

\* typeof x === 'object'
TypeofObject(j) == j.t \in {"object", "null"}

\* typeof x === 'string'
TypeofString(j) == j.t = "string"

\* JSON.stringify of an object body, as one piece
Stringify(j) ==
    IF j.t = "null" THEN "null"
    ELSE IF j.hasData THEN "{\"data\":[...]}"
    ELSE IF j.success THEN "{\"success\":true}"
    ELSE IF j.authentication # "" THEN "{\"authentication\":{...},\"usage\":{...}}"
    ELSE "{}"

-----------------------------------------------------------------------------
(* Errors and outcomes *)

\* a thrown JavaScript error: name, message, and axios's response / request marks
JsError(name, message) ==
    [name |-> name, message |-> message, hasResponse |-> FALSE,
     hasRequest |-> FALSE, status |-> 0, data |-> JNull]

NoError == JsError("none", << >>)

Ok(value) == [ok |-> TRUE, value |-> value, error |-> NoError]
Thrown(error) == [ok |-> FALSE, value |-> JNull, error |-> error]

-----------------------------------------------------------------------------
(* The upstream: what an HTTP request can come back with *)

Response(status, data, setCookie) ==
    [kind |-> "response", status |-> status, data |-> data, setCookie |-> setCookie]

\* the request went out and nothing came back (DNS, connection, timeout)
NoResponse == [kind |-> "noResponse", status |-> 0, data |-> JNull, setCookie |-> << >>]

\* the request could not be built or sent
SetupFailure == [kind |-> "setupError", status |-> 0, data |-> JNull, setCookie |-> << >>]

\* placeholder for a response that the operation never asks for
NotAsked == [kind |-> "notAsked", status |-> 0, data |-> JNull, setCookie |-> << >>]

\* axios's default validateStatus
DefaultValidateStatus(status) == status >= 200 /\ status < 300

-----------------------------------------------------------------------------
(* axios *)

\* an outgoing HTTP request (AxiosRequestConfig)
Request(method, url, headers, data) ==
    [method |-> method, url |-> url, headers |-> headers, data |-> data]

\* a request without a body: `data ? data : undefined`
NoData == [none |-> TRUE]

\* the headers every request starts from
BaseHeaders ==
    ("Content-Type" :> <<"application/json">>) @@ ("Accept" :> <<"application/json">>)

\* headers[name] = value
SetHeader(headers, name, value) == (name :> value) @@ headers

\* the error axios rejects with, for a request that did not yield an accepted response
AxiosError(resp) ==
    IF resp.kind = "response"
    THEN [name |-> "AxiosError",
          message |-> <<"Request failed with status code ", ToString(resp.status)>>,
          hasResponse |-> TRUE, hasRequest |-> TRUE,
          status |-> resp.status, data |-> resp.data]
    ELSE IF resp.kind = "noResponse"
    THEN [name |-> "AxiosError", message |-> <<"Network Error">>,
          hasResponse |-> FALSE, hasRequest |-> TRUE, status |-> 0, data |-> JNull]
    ELSE JsError("Error", <<"Invalid URL">>)

\* await axios(config): TRUE when the promise resolves with the response, given
\* whether validateStatus accepts its status
AxiosResolves(resp, statusAccepted) == resp.kind = "response" /\ statusAccepted

-----------------------------------------------------------------------------
(* KongApi.kongRequest *)

\* the synthetic body of a 204
SuccessTrue == [JBase EXCEPT !.success = TRUE]

\* HandleResponse without the 204 case
HandleResponseNo204(resp) == [out |-> Ok(resp.data), bodyRead |-> TRUE]

\* kongRequest, try block after axios resolved: the 204 case and the body
HandleResponse(resp) ==
    IF resp.status = 204
    THEN [out |-> Ok(SuccessTrue), bodyRead |-> FALSE]
    ELSE [out |-> Ok(resp.data), bodyRead |-> TRUE]

\* kongRequest, catch block: the error it throws for the error it caught
CatchError(error) ==
    IF error.hasResponse
    THEN LET errorData == error.data
             errorMessage == <<"API Error (Status ", ToString(error.status), ")">>
         IN  IF TypeofObject(errorData)
             THEN IF errorData.t = "null"
                  THEN JsError("TypeError",
                               <<"Cannot read properties of null (reading 'message')">>)
                  ELSE JsError("Error", errorMessage \o
                           <<": ", IF Truthy(errorData.message)
                                   THEN errorData.message
                                   ELSE Stringify(errorData)>>)
             ELSE IF TypeofString(errorData)
             THEN JsError("Error", errorMessage \o <<": ">> \o Substring0(errorData.s, 200))
             ELSE JsError("Error", errorMessage)
    ELSE IF error.hasRequest
    THEN JsError("Error", <<"Network Error: No response received from Kong API.",
                            " Please check your network connection and API endpoint configuration.">>)
    ELSE JsError("Error", <<"Request Error: ">> \o error.message \o
                          <<". Please check your request parameters and try again.">>)

\* the outcome of a request sent: outcome, the request, whether the body was read
Sent(req, h) == [out |-> h.out, sent |-> <<req>>, bodyRead |-> h.bodyRead]

\* SendAndHandle that sends a rejected request a second time
SendAndHandleRetrying(req, resp) ==
    IF AxiosResolves(resp, DefaultValidateStatus(resp.status))
    THEN Sent(req, HandleResponse(resp))
    ELSE [out |-> Thrown(CatchError(AxiosError(resp))), sent |-> <<req, req>>,
          bodyRead |-> FALSE]

\* kongRequest from `const config` on: send the request, handle what comes back
SendAndHandle(req, resp) ==
    IF AxiosResolves(resp, DefaultValidateStatus(resp.status))
    THEN Sent(req, HandleResponse(resp))
    ELSE Sent(req, [out |-> Thrown(CatchError(AxiosError(resp))), bodyRead |-> FALSE])

\* AdminUrl with the /v2 segment kept for every endpoint
AdminUrlKeepsV2(endpoint) == adminBaseUrl \o endpoint

\* kongRequest, else branch: the admin base URL for this endpoint
AdminUrl(endpoint) ==
    LET baseUrl == IF StartsWith(endpoint, <<"/", "v3">>)
                   THEN ReplaceFirst(adminBaseUrl, <<"/", "v2">>)
                   ELSE adminBaseUrl
    IN  baseUrl \o endpoint

\* kongRequest, else branch: the headers of an admin request
AdminHeaders == SetHeader(BaseHeaders, "Authorization", <<"Bearer ", apiKey>>)

\* kongRequest when `usePortalBaseUrl && portalId` is false
KongRequestAdmin(endpoint, method, data, resp) ==
    SendAndHandle(Request(method, AdminUrl(endpoint), AdminHeaders, data), resp)

-----------------------------------------------------------------------------
(* KongApi.listDevPortalPortals and KongApi.getPortalBaseUrl *)

\* `${x}` in a template literal
TemplateStr(x) == IF x = UNDEF THEN "undefined" ELSE x

\* `if (pageNumber)`: undefined and 0 are falsy
TruthyNum(n) == n # UNDEF /\ n # "0"

\* the endpoint listDevPortalPortals builds
ListPortalsEndpoint(pageSize, pageNumber) ==
    <<"/", "v3", "/", "portals", "?page[size]=", TemplateStr(pageSize)>> \o
    (IF TruthyNum(pageNumber) THEN <<"&page[number]=", TemplateStr(pageNumber)>> ELSE << >>)

\* listDevPortalPortals(pageSize = 10, pageNumber): always the admin API
ListDevPortalPortals(pageSize, pageNumber, resp) ==
    KongRequestAdmin(ListPortalsEndpoint(IF pageSize = UNDEF THEN "10" ELSE pageSize,
                                         pageNumber),
                     "GET", NoData, resp)

RECURSIVE FindPortal(_, _, _)
\* portals.data.find(p => p.id === portalId): the index of the first match, or 0
FindPortal(data, portalId, i) ==
    IF i > Len(data) THEN 0
    ELSE IF data[i].id = portalId THEN i
    ELSE FindPortal(data, portalId, i + 1)

\* the portal identifier that part_001 resolves without asking the admin API
HardcodedPortalId == "9848ffe2-c4d1-4841-9e0d-663d151ce736"

HardcodedBaseUrl == <<"https://", "affdbf0ae586.edge.eu.portal.konghq.com">>

\* the outcome of getPortalBaseUrl: the URL or the error, the cache, the requests sent
Resolved(ok, url, error, urls, sent) ==
    [ok |-> ok, url |-> url, error |-> error, urls |-> urls, sent |-> sent]

\* the base URL of a listing record
BaseUrlOf(portal) == <<"https://", TemplateStr(portal.canonical_domain)>>

\* getPortalBaseUrl, try block: the portal is record i of the listing r returned
ResolveFound(portalId, r, i) ==
    IF i = 0
    THEN Resolved(FALSE, << >>,
                  JsError("Error", <<"Portal with ID ", portalId, " not found">>),
                  portalBaseUrls, r.sent)
    ELSE Resolved(TRUE, BaseUrlOf(r.out.value.data[i]), NoError,
                  (portalId :> BaseUrlOf(r.out.value.data[i])) @@ portalBaseUrls, r.sent)

\* getPortalBaseUrl, try block, given what listDevPortalPortals() came back with
ResolveWith(portalId, r) ==
    IF ~r.out.ok
    THEN Resolved(FALSE, << >>, r.out.error, portalBaseUrls, r.sent)
    ELSE IF r.out.value.t = "null"
    THEN Resolved(FALSE, << >>,
                  JsError("TypeError",
                          <<"Cannot read properties of null (reading 'data')">>),
                  portalBaseUrls, r.sent)
    ELSE IF ~r.out.value.hasData
    THEN Resolved(FALSE, << >>,
                  JsError("TypeError",
                          <<"Cannot read properties of undefined (reading 'find')">>),
                  portalBaseUrls, r.sent)
    ELSE ResolveFound(portalId, r, FindPortal(r.out.value.data, portalId, 1))

\* ResolveFromListing that asks for the second page of the listing
ResolveFromListingSecondPage(portalId, listResp) ==
    ResolveWith(portalId, ListDevPortalPortals(UNDEF, "2", listResp))

\* getPortalBaseUrl, from the listing call on
ResolveFromListing(portalId, listResp) ==
    ResolveWith(portalId, ListDevPortalPortals(UNDEF, UNDEF, listResp))

\* GetPortalBaseUrl without the look into portalBaseUrls
GetPortalBaseUrlNoCache(portalId, listResp) == ResolveFromListing(portalId, listResp)

\* getPortalBaseUrl(portalId)
GetPortalBaseUrl(portalId, listResp) ==
    IF portalId \in DOMAIN portalBaseUrls
    THEN Resolved(TRUE, portalBaseUrls[portalId], NoError, portalBaseUrls, << >>)
    ELSE IF build = "part_001" /\ portalId = HardcodedPortalId
    THEN Resolved(TRUE, HardcodedBaseUrl, NoError,
                  (portalId :> HardcodedBaseUrl) @@ portalBaseUrls, << >>)
    ELSE ResolveFromListing(portalId, listResp)

\* TRUE when getPortalBaseUrl(portalId) asks the admin API for the listing
NeedsListing(portalId) ==
    /\ portalId \notin DOMAIN portalBaseUrls
    /\ ~(build = "part_001" /\ portalId = HardcodedPortalId)

-----------------------------------------------------------------------------
(* KongApi.kongRequest, whole *)

\* kongRequest, portal branch: the endpoint gets /api in front when it starts with /v3
PortalEndpoint(endpoint) ==
    IF build = "part_000" /\ ~StartsWith(endpoint, <<"/", "api", "/">>)
                          /\ StartsWith(endpoint, <<"/", "v3">>)
    THEN <<"/", "api">> \o endpoint
    ELSE endpoint

\* PortalHeaders with the stored cookie tried before the one supplied
PortalHeadersStoredFirst(portalId, cookies) ==
    IF portalId \in DOMAIN portalAuthCookies
    THEN SetHeader(BaseHeaders, "Cookie", portalAuthCookies[portalId])
    ELSE IF TruthyStr(cookies)
    THEN SetHeader(BaseHeaders, "Cookie", cookies)
    ELSE BaseHeaders

\* PortalHeaders built on the headers of the admin branch, bearer token included
PortalHeadersWithBearer(portalId, cookies) ==
    LET headers == SetHeader(BaseHeaders, "Authorization", <<"Bearer ", apiKey>>)
    IN  IF TruthyStr(cookies)
        THEN SetHeader(headers, "Cookie", cookies)
        ELSE IF portalId \in DOMAIN portalAuthCookies
        THEN SetHeader(headers, "Cookie", portalAuthCookies[portalId])
        ELSE headers

\* kongRequest, portal branch: the Cookie header
PortalHeaders(portalId, cookies) ==
    IF TruthyStr(cookies)
    THEN SetHeader(BaseHeaders, "Cookie", cookies)
    ELSE IF portalId \in DOMAIN portalAuthCookies
    THEN SetHeader(BaseHeaders, "Cookie", portalAuthCookies[portalId])
    ELSE BaseHeaders

\* kongRequest's condition for the portal branch
UsesPortal(usePortalBaseUrl, portalId) == usePortalBaseUrl /\ Truthy(portalId)

\* the result of kongRequest: outcome, requests sent, URL cache, whether the body was read
KongResult(out, sent, urls, bodyRead) ==
    [out |-> out, sent |-> sent, urls |-> urls, bodyRead |-> bodyRead]

\* kongRequest's result when the request follows a portal resolution
AfterResolve(g, r) == KongResult(r.out, g.sent \o r.sent, g.urls, r.bodyRead)

\* kongRequest, portal branch, given what getPortalBaseUrl came back with
KongRequestPortal(endpoint, method, data, portalId, cookies, resp, g) ==
    IF ~g.ok
    THEN KongResult(Thrown(CatchError(g.error)), g.sent, g.urls, FALSE)
    ELSE AfterResolve(g, SendAndHandle(Request(method, g.url \o PortalEndpoint(endpoint),
                                               PortalHeaders(portalId, cookies), data),
                                       resp))

\* kongRequest's result when no portal is resolved
AdminResult(r) == KongResult(r.out, r.sent, portalBaseUrls, r.bodyRead)

\* kongRequest(endpoint, method, data, usePortalBaseUrl, portalId, cookies)
KongRequest(endpoint, method, data, usePortalBaseUrl, portalId, cookies, listResp, resp) ==
    IF UsesPortal(usePortalBaseUrl, portalId)
    THEN KongRequestPortal(endpoint, method, data, portalId, cookies, resp,
                           GetPortalBaseUrl(portalId, listResp))
    ELSE AdminResult(KongRequestAdmin(endpoint, method, data, resp))

-----------------------------------------------------------------------------
(* KongApi.authenticateDevPortalDeveloper *)

\* a || b on optional strings
OrElse(a, b) == IF Truthy(a) THEN a ELSE b

\* the login endpoint
AuthenticateEndpoint ==
    <<"/", "api", "/", "v3", "/", "developer", "/", "authenticate">>

\* the validateStatus option of the login request
AuthValidateStatus(status) == status >= 200 /\ status < 400

(* A Set-Cookie header value "name=value; attributes" is the record        *)
(* [name, value].  Cookie names are whole pieces, so                       *)
(* cookie.includes('portalaccesstoken') is a test of the name, and         *)
(* /portalaccesstoken=([^;]+)/ matches when the value is not empty.        *)
CookieIncludes(cookie) == cookie.name = "portalaccesstoken"

\* cookie.match(/portalaccesstoken=([^;]+)/): the captured token, or UNDEF
TokenMatch(cookie) ==
    IF cookie.name = "portalaccesstoken" /\ cookie.value # ""
    THEN cookie.value
    ELSE UNDEF

RECURSIVE ExtractToken(_, _)
\* the loop over response.headers['set-cookie']: the first token matched, or UNDEF
ExtractToken(cookies, i) ==
    IF i > Len(cookies) THEN UNDEF
    ELSE IF CookieIncludes(cookies[i]) /\ Truthy(TokenMatch(cookies[i]))
    THEN TokenMatch(cookies[i])
    ELSE ExtractToken(cookies, i + 1)

\* the cookie string stored in portalAuthCookies, and sent in the Cookie header
CookieString(token) == <<"portalaccesstoken=", token>>

\* StoreCookie without the test of the token: stores whatever the loop ended with
StoreCookieAlways(portalId, setCookie) ==
    (portalId :> CookieString(ExtractToken(setCookie, 1))) @@ portalAuthCookies

\* StoreCookie that keeps the cookie a portal already has
StoreCookieKeepsOld(portalId, setCookie) ==
    IF Truthy(ExtractToken(setCookie, 1))
    THEN portalAuthCookies @@ (portalId :> CookieString(ExtractToken(setCookie, 1)))
    ELSE portalAuthCookies

\* StoreCookie that drops the portal's cookie when the response carries no token
StoreCookieForgetting(portalId, setCookie) ==
    LET token == ExtractToken(setCookie, 1)
    IN  IF Truthy(token)
        THEN (portalId :> CookieString(token)) @@ portalAuthCookies
        ELSE [q \in (DOMAIN portalAuthCookies) \ {portalId} |-> portalAuthCookies[q]]

\* StoreCookie that keeps one session only: the new cookie replaces the whole mapping
StoreCookieSingleSession(portalId, setCookie) ==
    LET token == ExtractToken(setCookie, 1)
    IN  IF Truthy(token)
        THEN (portalId :> CookieString(token))
        ELSE portalAuthCookies

\* portalAuthCookies after the login response
StoreCookie(portalId, setCookie) ==
    LET token == ExtractToken(setCookie, 1)
    IN  IF Truthy(token)
        THEN (portalId :> CookieString(token)) @@ portalAuthCookies
        ELSE portalAuthCookies

\* the object authenticateDevPortalDeveloper returns
AuthSuccess == [JBase EXCEPT !.authentication = "success"]

\* the error thrown when no username or no password is left
CredentialsError ==
    JsError("Error", <<"Developer credentials not provided and not found in ",
                       "environment variables (DEV_PORTAL_USER, DEV_PORTAL_PASSWORD)">>)

\* the username the login request carries
DeveloperUsername(username) == OrElse(username, env.DEV_PORTAL_USER)

\* DeveloperPassword without the fall-back to the environment
DeveloperPasswordExplicitOnly(password) == password

\* the password the login request carries
DeveloperPassword(password) == OrElse(password, env.DEV_PORTAL_PASSWORD)

\* the result of authenticate: outcome, requests sent, both caches
AuthResult(out, sent, urls, cookies) ==
    [out |-> out, sent |-> sent, urls |-> urls, cookies |-> cookies]

\* the login request
LoginRequest(baseUrl, developerUsername, developerPassword) ==
    Request("POST", baseUrl \o AuthenticateEndpoint, BaseHeaders,
            [username |-> developerUsername, password |-> developerPassword])

\* authenticateDevPortalDeveloper, try block, given what getPortalBaseUrl came back with
AuthenticateWith(portalId, developerUsername, developerPassword, authResp, g) ==
    IF ~g.ok
    THEN AuthResult(Thrown(g.error), g.sent, g.urls, portalAuthCookies)
    ELSE IF ~AxiosResolves(authResp, AuthValidateStatus(authResp.status))
    THEN AuthResult(Thrown(AxiosError(authResp)),
                    g.sent \o <<LoginRequest(g.url, developerUsername, developerPassword)>>,
                    g.urls, portalAuthCookies)
    ELSE AuthResult(Ok(AuthSuccess),
                    g.sent \o <<LoginRequest(g.url, developerUsername, developerPassword)>>,
                    g.urls, StoreCookie(portalId, authResp.setCookie))

\* authenticateDevPortalDeveloper(portalId, username, password)
AuthenticateDevPortalDeveloper(portalId, username, password, listResp, authResp) ==
    IF ~Truthy(DeveloperUsername(username)) \/ ~Truthy(DeveloperPassword(password))
    THEN AuthResult(Thrown(CredentialsError), << >>, portalBaseUrls, portalAuthCookies)
    ELSE AuthenticateWith(portalId, DeveloperUsername(username),
                          DeveloperPassword(password), authResp,
                          GetPortalBaseUrl(portalId, listResp))

-----------------------------------------------------------------------------
(* KongApi.listDevPortalApis *)

\* encodeURIComponent, on the values the model passes
EncodeURIComponent(x) == IF x = "pet store" THEN "pet%20store" ELSE x

\* the endpoint listDevPortalApis builds
ListApisEndpoint(pageSize, pageNumber, filterName, filterPublished, sort) ==
    <<"/", "api", "/", "v3", "/", "apis", "?page[size]=", TemplateStr(pageSize)>> \o
    (IF TruthyNum(pageNumber) THEN <<"&page[number]=", TemplateStr(pageNumber)>> ELSE << >>) \o
    (IF Truthy(filterName)
     THEN <<"&filter[name][contains]=", EncodeURIComponent(filterName)>> ELSE << >>) \o
    (IF filterPublished # UNDEF THEN <<"&filter[published]=", filterPublished>> ELSE << >>) \o
    (IF Truthy(sort) THEN <<"&sort=", EncodeURIComponent(sort)>> ELSE << >>)

\* `portalAccessToken ? `portalaccesstoken=${portalAccessToken}` : undefined`
TokenCookie(portalAccessToken) ==
    IF Truthy(portalAccessToken) THEN CookieString(portalAccessToken) ELSE Undefined

\* the error of a portal operation called without a portal
PortalIdRequired(what) ==
    JsError("Error", <<"Portal ID is required for ", what,
                       ". Use the list-portals tool to get a portal ID, then authenticate ",
                       "with that portal using authenticate-developer-portal.">>)

\* listDevPortalApis(pageSize = 10, pageNumber, filterName, filterPublished, sort,
\*                   portalId, portalAccessToken)
ListDevPortalApis(pageSize, pageNumber, filterName, filterPublished, sort, portalId, portalAccessToken, listResp, resp) ==
    LET size == IF pageSize = UNDEF THEN "10" ELSE pageSize
        endpoint == ListApisEndpoint(size, pageNumber, filterName, filterPublished, sort)
    IN  IF Truthy(portalId)
        THEN KongRequest(endpoint, "GET", NoData, TRUE, portalId,
                         TokenCookie(portalAccessToken), listResp, resp)
        ELSE IF build = "part_000"
        THEN KongResult(Thrown(PortalIdRequired("listing APIs")), << >>,
                        portalBaseUrls, FALSE)
        ELSE KongRequest(<<"/", "v3", "/", "apis", "?page[size]=", TemplateStr(size)>>,
                         "GET", NoData, FALSE, UNDEF, Undefined, listResp, resp)

-----------------------------------------------------------------------------
(* KongApi: the other portal operations of part_000 *)

\* obj.name on a value that is neither null nor undefined: undefined when absent
Prop(obj, name) ==
    IF "t" \in DOMAIN obj /\ obj.t # "object" THEN UNDEF
    ELSE IF name \in DOMAIN obj THEN obj[name]
    ELSE UNDEF

\* obj has the property name, and it holds an object
HasObject(obj, name) ==
    /\ ("t" \in DOMAIN obj => obj.t = "object")
    /\ name \in DOMAIN obj

\* obj is null or undefined, so that reading a property of it throws
Nullish(obj) == obj.t \in {"null", "undefined"}

\* the TypeError of reading property name of null or undefined
CannotRead(of, name) ==
    JsError("TypeError", <<"Cannot read properties of ", of, " (reading '", name, "')">>)

\* obj.data is an array
HasDataArray(obj) == obj.t = "object" /\ "hasData" \in DOMAIN obj /\ obj.hasData

\* the response the i-th request of an operation consumes
RespAt(resps, i) == IF i \in DOMAIN resps THEN resps[i] ELSE NotAsked

\* getPortalBaseUrl as a later request of the same operation finds it: in the cache
CachedHit(g) == Resolved(TRUE, g.url, NoError, g.urls, << >>)

\* a result with the requests of the operation's earlier calls in front
Following(sent, r) == KongResult(r.out, sent \o r.sent, r.urls, r.bodyRead)

\* the result of an operation that throws before it calls kongRequest
Refused(error) == KongResult(Thrown(error), << >>, portalBaseUrls, FALSE)

\* a KongApi result with another outcome
WithOut(r, out) == KongResult(out, r.sent, r.urls, r.bodyRead)

\* this.kongRequest(endpoint, method, data, true, portalId, token cookie), given
\* what getPortalBaseUrl came back with
PortalRequest(endpoint, method, data, portalId, portalAccessToken, resp, g) ==
    KongRequestPortal(endpoint, method, data, portalId, TokenCookie(portalAccessToken),
                      resp, g)

ApplicationsEndpoint == <<"/", "api", "/", "v3", "/", "applications">>

\* createDevPortalApplication(name, description, portalId, portalAccessToken)
CreateDevPortalApplication(name, description, portalId, portalAccessToken, resp, g) ==
    IF ~Truthy(portalId)
    THEN Refused(PortalIdRequired("creating applications"))
    ELSE PortalRequest(ApplicationsEndpoint, "POST",
                       [name |-> name, description |-> description],
                       portalId, portalAccessToken, resp, g)

\* the endpoint listDevPortalApplications builds
ListApplicationsEndpoint(pageSize, pageNumber, filterName, sort) ==
    ApplicationsEndpoint \o <<"?page[size]=", TemplateStr(pageSize)>> \o
    (IF TruthyNum(pageNumber) THEN <<"&page[number]=", TemplateStr(pageNumber)>> ELSE << >>) \o
    (IF Truthy(filterName)
     THEN <<"&filter[name][contains]=", EncodeURIComponent(filterName)>> ELSE << >>) \o
    (IF Truthy(sort) THEN <<"&sort=", EncodeURIComponent(sort)>> ELSE << >>)

\* listDevPortalApplications(pageSize = 10, pageNumber, filterName, sort, portalId,
\*                           portalAccessToken)
ListDevPortalApplications(pageSize, pageNumber, filterName, sort, portalId, portalAccessToken, resp, g) ==
    IF ~Truthy(portalId)
    THEN Refused(PortalIdRequired("listing applications"))
    ELSE PortalRequest(ListApplicationsEndpoint(IF pageSize = UNDEF THEN "10" ELSE pageSize,
                                                pageNumber, filterName, sort),
                       "GET", NoData, portalId, portalAccessToken, resp, g)

\* `/api/v3/applications/${applicationId}/registrations`
RegistrationsEndpoint(applicationId) ==
    ApplicationsEndpoint \o <<"/", TemplateStr(applicationId), "/", "registrations">>

\* the subscription object KongApi builds from an upstream registration
SubscriptionOf(item) ==
    [t |-> "object",
     subscription |-> [t |-> "object",
                       subscriptionId |-> Prop(item, "id"),
                       apiId |-> Prop(item, "api_id"),
                       applicationId |-> Prop(item, "application_id"),
                       status |-> Prop(item, "status")]]

\* createDevPortalSubscription after kongRequest: the consistent format
SubscriptionCreated(r) ==
    IF ~r.out.ok THEN r
    ELSE IF Nullish(r.out.value)
    THEN WithOut(r, Thrown(CannotRead(r.out.value.t, "id")))
    ELSE WithOut(r, Ok(SubscriptionOf(r.out.value)))

\* createDevPortalSubscription(apiId, applicationId, portalId, portalAccessToken)
CreateDevPortalSubscription(apiId, applicationId, portalId, portalAccessToken, resp, g) ==
    IF ~Truthy(portalId)
    THEN Refused(PortalIdRequired("creating subscriptions"))
    ELSE SubscriptionCreated(PortalRequest(RegistrationsEndpoint(applicationId), "POST",
                                           [api_id |-> apiId],
                                           portalId, portalAccessToken, resp, g))

\* the endpoint listDevPortalSubscriptions builds
ListSubscriptionsEndpoint(applicationId, apiId, pageSize, pageNumber, status, sort) ==
    (IF Truthy(applicationId)
     THEN RegistrationsEndpoint(applicationId)
     ELSE <<"/", "api", "/", "v3", "/", "registrations">>) \o
    <<"?page[size]=", TemplateStr(pageSize)>> \o
    (IF TruthyNum(pageNumber) THEN <<"&page[number]=", TemplateStr(pageNumber)>> ELSE << >>) \o
    (IF Truthy(apiId) THEN <<"&filter[api_id][eq]=", apiId>> ELSE << >>) \o
    (IF Truthy(status) THEN <<"&filter[status][eq]=", status>> ELSE << >>) \o
    (IF Truthy(sort) THEN <<"&sort=", EncodeURIComponent(sort)>> ELSE << >>)

\* response.data.map(item => ({subscription: {...}}))
MapSubscriptions(data) == [i \in DOMAIN data |-> SubscriptionOf(data[i])]

\* listDevPortalSubscriptions after kongRequest: the transformed listing
SubscriptionsListed(r) ==
    IF ~r.out.ok THEN r
    ELSE IF Nullish(r.out.value)
    THEN WithOut(r, Thrown(CannotRead(r.out.value.t, "meta")))
    ELSE IF ~HasDataArray(r.out.value)
    THEN WithOut(r, Thrown(CannotRead("undefined", "map")))
    ELSE WithOut(r, Ok(JListing(MapSubscriptions(r.out.value.data))))

\* listDevPortalSubscriptions(applicationId, apiId, pageSize = 10, pageNumber, status,
\*                            sort, portalId, portalAccessToken)
ListDevPortalSubscriptions(applicationId, apiId, pageSize, pageNumber, status, sort, portalId, portalAccessToken, resp, g) ==
    IF ~Truthy(portalId)
    THEN Refused(PortalIdRequired("listing subscriptions"))
    ELSE SubscriptionsListed(
             PortalRequest(ListSubscriptionsEndpoint(
                               applicationId, apiId,
                               IF pageSize = UNDEF THEN "10" ELSE pageSize,
                               pageNumber, status, sort),
                           "GET", NoData, portalId, portalAccessToken, resp, g))

\* `/api/v3/apis/${apiId}/specifications`
SpecificationsEndpoint(apiId) ==
    <<"/", "api", "/", "v3", "/", "apis", "/", TemplateStr(apiId), "/", "specifications">>

\* `/api/v3/apis/${apiId}/specifications/${spec.id}`
SpecificationEndpoint(apiId, spec) ==
    SpecificationsEndpoint(apiId) \o <<"/", TemplateStr(Prop(spec, "id"))>>

\* the entry pushed for a specification and its content
SpecificationOf(spec, specContent) ==
    [t |-> "object", id |-> Prop(spec, "id"), type |-> Prop(spec, "type"),
     content |-> Prop(specContent, "content")]

RECURSIVE FetchSpecifications(_, _, _, _, _, _, _, _)
RECURSIVE SpecificationFetched(_, _, _, _, _, _, _, _, _)
\* the loop over specList.data from its i-th element on: acc holds the requests sent
\* and the specifications pushed so far
FetchSpecifications(apiId, portalId, portalAccessToken, data, i, resps, g, acc) ==
    IF i > Len(data)
    THEN KongResult(Ok(JListing(acc.specifications)), acc.sent, g.urls, TRUE)
    ELSE SpecificationFetched(
             apiId, portalId, portalAccessToken, data, i, resps, g, acc,
             PortalRequest(SpecificationEndpoint(apiId, data[i]), "GET", NoData,
                           portalId, portalAccessToken, RespAt(resps, i + 1),
                           CachedHit(g)))

\* SpecificationFetched that leaves a specification out when its request fails
SpecificationFetchedSkipping(apiId, portalId, portalAccessToken, data, i, resps, g, acc, r) ==
    FetchSpecifications(
        apiId, portalId, portalAccessToken, data, i + 1, resps, g,
        [sent |-> acc.sent \o r.sent,
         specifications |->
             IF r.out.ok /\ ~Nullish(r.out.value)
             THEN Append(acc.specifications, SpecificationOf(data[i], r.out.value))
             ELSE acc.specifications])

\* the loop body after the content request of the i-th specification came back with r
SpecificationFetched(apiId, portalId, portalAccessToken, data, i, resps, g, acc, r) ==
    IF ~r.out.ok
    THEN Following(acc.sent, r)
    ELSE IF Nullish(r.out.value)
    THEN Following(acc.sent, WithOut(r, Thrown(CannotRead(r.out.value.t, "content"))))
    ELSE FetchSpecifications(
             apiId, portalId, portalAccessToken, data, i + 1, resps, g,
             [sent |-> acc.sent \o r.sent,
              specifications |-> Append(acc.specifications,
                                        SpecificationOf(data[i], r.out.value))])

\* SpecificationsDiscovered without the test of the list's shape
SpecificationsDiscoveredUnchecked(apiId, portalId, portalAccessToken, resps, g, r) ==
    IF ~r.out.ok THEN r
    ELSE IF ~HasDataArray(r.out.value)
    THEN WithOut(r, Thrown(JsError("TypeError", <<"specList.data is not iterable">>)))
    ELSE FetchSpecifications(apiId, portalId, portalAccessToken, r.out.value.data, 1,
                             resps, g, [sent |-> r.sent, specifications |-> << >>])

\* getDevPortalApiSpecifications after the discovery call
SpecificationsDiscovered(apiId, portalId, portalAccessToken, resps, g, r) ==
    IF ~r.out.ok THEN r
    ELSE IF ~HasDataArray(r.out.value)
    THEN WithOut(r, Ok(JListing(<< >>)))
    ELSE FetchSpecifications(apiId, portalId, portalAccessToken, r.out.value.data, 1,
                             resps, g, [sent |-> r.sent, specifications |-> << >>])

\* getDevPortalApiSpecifications(apiId, portalId, portalAccessToken)
GetDevPortalApiSpecifications(apiId, portalId, portalAccessToken, resps, g) ==
    IF ~Truthy(portalId)
    THEN Refused(PortalIdRequired("getting API specifications"))
    ELSE SpecificationsDiscovered(
             apiId, portalId, portalAccessToken, resps, g,
             PortalRequest(SpecificationsEndpoint(apiId), "GET", NoData, portalId,
                           portalAccessToken, RespAt(resps, 1), g))

\* the body of the create-credential request
CredentialData(name, expiresIn) ==
    IF TruthyNum(expiresIn)
    THEN [display_name |-> name, expires_in |-> expiresIn]
    ELSE [display_name |-> name]

\* createDevPortalApiKey(applicationId, name, expiresIn, portalId, portalAccessToken)
CreateDevPortalApiKey(applicationId, name, expiresIn, portalId, portalAccessToken, resp, g) ==
    IF ~Truthy(portalId)
    THEN Refused(PortalIdRequired("generating API keys"))
    ELSE PortalRequest(ApplicationsEndpoint \o
                           <<"/", TemplateStr(applicationId), "/", "credentials">>,
                       "POST", CredentialData(name, expiresIn),
                       portalId, portalAccessToken, resp, g)

-----------------------------------------------------------------------------
(* devPortal.authenticateDevPortalDeveloper and the dispatcher of index.ts *)

\* the handler's return, given the result of api.authenticateDevPortalDeveloper
DevPortalAuthenticated(r) ==
    IF r.out.ok
    THEN AuthResult(Ok(AuthSuccess), r.sent, r.urls, r.cookies)
    ELSE r

\* operations/devPortal.ts authenticateDevPortalDeveloper(api, portalId, username, password)
DevPortalAuthenticate(portalId, username, password, listResp, authResp) ==
    DevPortalAuthenticated(AuthenticateDevPortalDeveloper(portalId, username, password,
                                                          listResp, authResp))

\* the keys of authenticateDevPortalDeveloperParameters
AuthenticateShape == {"portalId", "username", "password"}

\* the argument object the handler receives: the schema's keys of what the caller sent
ParseArgs(shape, raw) == [k \in (DOMAIN raw) \cap shape |-> raw[k]]

\* args.k
Arg(args, k) == IF k \in DOMAIN args THEN args[k] ELSE UNDEF

\* the tool result of the dispatcher
ToolResult(isError, text) == [isError |-> isError, text |-> text]

NoTool == ToolResult(FALSE, << >>)

TroubleshootingTips ==
    <<"\n\nTroubleshooting tips:\n1. Verify your API key is valid and has sufficient ",
      "permissions\n2. Check that the parameters provided are valid\n3. Ensure your ",
      "network connection to the Kong API is working properly">>

\* JSON.stringify(result, null, 2) of a handler's result, as one piece
StringifyResult(result) ==
    IF "entries" \in DOMAIN result THEN "{\"metadata\":{...},...}"
    ELSE IF "specifications" \in DOMAIN result THEN "{\"specifications\":[...]}"
    ELSE IF "subscription" \in DOMAIN result THEN "{\"subscription\":{...}}"
    ELSE IF "apiKey" \in DOMAIN result THEN "{\"apiKey\":{...}}"
    ELSE Stringify(result)

\* Render whose catch returns the text without the error flag
RenderUnflagged(out) ==
    IF out.ok
    THEN ToolResult(FALSE, <<StringifyResult(out.value)>>)
    ELSE ToolResult(FALSE, <<"Error: ">> \o out.error.message \o TroubleshootingTips)

\* the dispatcher's return for a handler outcome: the try's return, or the catch's
Render(out) ==
    IF out.ok
    THEN ToolResult(FALSE, <<StringifyResult(out.value)>>)
    ELSE ToolResult(TRUE, <<"Error: ">> \o out.error.message \o TroubleshootingTips)

\* case "authenticate_developer_portal" of the dispatcher
DispatchAuthenticate(args, listResp, authResp) ==
    DevPortalAuthenticate(Arg(args, "portalId"), Arg(args, "email"),
                          Arg(args, "password"), listResp, authResp)

-----------------------------------------------------------------------------
(* operations/devPortal.ts: the handlers of the other tools *)

\* `pageSize = 10`: the default of the handlers' parameter
PageSizeOf(pageSize) == IF pageSize = UNDEF THEN "10" ELSE pageSize

\* the metadata of a list result: `pageSize`, `pageNumber || 1`
ListMetadata(pageSize, pageNumber) ==
    [pageSize |-> pageSize,
     pageNumber |-> IF TruthyNum(pageNumber) THEN pageNumber ELSE "1"]

\* a list handler after the KongApi call came back with r: entries maps result.data
ListHandled(r, metadata, entries) ==
    IF ~r.out.ok THEN r
    ELSE IF Nullish(r.out.value)
    THEN WithOut(r, Thrown(CannotRead(r.out.value.t, "meta")))
    ELSE IF ~HasDataArray(r.out.value)
    THEN WithOut(r, Thrown(CannotRead("undefined", "map")))
    ELSE WithOut(r, Ok([t |-> "object", metadata |-> metadata, entries |-> entries]))

\* result.data of a KongApi result, << >> where the handler does not get to read it
DataOf(r) == IF r.out.ok /\ HasDataArray(r.out.value) THEN r.out.value.data ELSE << >>

\* the entry listPortals makes of a portal
PortalEntry(portal) ==
    [portalId |-> Prop(portal, "id"), name |-> Prop(portal, "name"),
     description |-> Prop(portal, "description")]

\* listPortals, given what api.listDevPortalPortals came back with
PortalsListed(pageSize, pageNumber, r) ==
    ListHandled(r, ListMetadata(pageSize, pageNumber),
                [i \in DOMAIN DataOf(r) |-> PortalEntry(DataOf(r)[i])])

\* listPortals(api, pageSize = 10, pageNumber)
ListPortals(pageSize, pageNumber, resp) ==
    PortalsListed(PageSizeOf(pageSize), pageNumber,
                  AdminResult(ListDevPortalPortals(PageSizeOf(pageSize), pageNumber, resp)))

\* the entry listApis makes of an API
ApiEntry(api) ==
    [apiId |-> Prop(api, "id"), name |-> Prop(api, "name"),
     description |-> Prop(api, "description"), version |-> Prop(api, "version")]

\* listApis, given what api.listDevPortalApis came back with
ApisListed(pageSize, pageNumber, r) ==
    ListHandled(r, ListMetadata(pageSize, pageNumber),
                [i \in DOMAIN DataOf(r) |-> ApiEntry(DataOf(r)[i])])

\* listApis(api, pageSize = 10, pageNumber, filterName, filterPublished, sort, portalId,
\*          portalAccessToken)
ListApis(pageSize, pageNumber, portalId, portalAccessToken, listResp, resp) ==
    ApisListed(PageSizeOf(pageSize), pageNumber,
               ListDevPortalApis(PageSizeOf(pageSize), pageNumber, UNDEF, UNDEF, UNDEF,
                                 portalId, portalAccessToken, listResp, resp))

\* ApplicationEntry that hands the upstream record on as it is
ApplicationEntryRaw(app) == app

\* the entry listApplications makes of an application
ApplicationEntry(app) ==
    [applicationId |-> Prop(app, "id"), name |-> Prop(app, "name"),
     description |-> Prop(app, "description"), status |-> Prop(app, "status")]

\* listApplications, given what api.listDevPortalApplications came back with
ApplicationsListed(pageSize, pageNumber, r) ==
    ListHandled(r, ListMetadata(pageSize, pageNumber),
                [i \in DOMAIN DataOf(r) |-> ApplicationEntry(DataOf(r)[i])])

\* listApplications(api, pageSize = 10, pageNumber, filterName, sort, portalId,
\*                  portalAccessToken)
ListApplications(pageSize, pageNumber, portalId, portalAccessToken, resp, g) ==
    ApplicationsListed(PageSizeOf(pageSize), pageNumber,
                       ListDevPortalApplications(PageSizeOf(pageSize), pageNumber, UNDEF,
                                                 UNDEF, portalId, portalAccessToken,
                                                 resp, g))

\* the entry listSubscriptions makes of an element of result.data
SubscriptionEntry(sub) ==
    [subscriptionId |-> Prop(sub, "id"),
     apiId |-> Prop(sub.api, "id"),
     applicationId |-> Prop(sub.application, "id"),
     status |-> Prop(sub, "status")]

\* the index of the first element of result.data whose sub.api or sub.application is
\* undefined, so that reading its id throws; 0 when there is none
FirstUnreadable(data) ==
    LET S == { i \in DOMAIN data :
                 ~HasObject(data[i], "api") \/ ~HasObject(data[i], "application") }
    IN  IF S = {} THEN 0 ELSE CHOOSE i \in S : \A j \in S : i <= j

\* listSubscriptions, given what api.listDevPortalSubscriptions came back with
SubscriptionsHandled(pageSize, pageNumber, r) ==
    IF FirstUnreadable(DataOf(r)) # 0
    THEN WithOut(r, Thrown(CannotRead("undefined", "id")))
    ELSE ListHandled(r, ListMetadata(pageSize, pageNumber),
                     [i \in DOMAIN DataOf(r) |-> SubscriptionEntry(DataOf(r)[i])])

\* listSubscriptions(api, applicationId, apiId, pageSize = 10, pageNumber, status, sort,
\*                   portalId, portalAccessToken)
ListSubscriptions(applicationId, apiId, pageSize, pageNumber, portalId, portalAccessToken, resp, g) ==
    SubscriptionsHandled(PageSizeOf(pageSize), pageNumber,
                         ListDevPortalSubscriptions(applicationId, apiId,
                                                    PageSizeOf(pageSize), pageNumber,
                                                    UNDEF, UNDEF, portalId,
                                                    portalAccessToken, resp, g))

\* the entry getApiSpecifications makes of an element of result.data
SpecificationEntry(spec) ==
    [id |-> Prop(spec, "id"), type |-> Prop(spec, "api_type"),
     content |-> Prop(spec, "content")]

\* getApiSpecifications, given what api.getDevPortalApiSpecifications came back with
SpecificationsHandled(r) ==
    IF ~r.out.ok THEN r
    ELSE WithOut(r, Ok([t |-> "object",
                        specifications |->
                            [i \in DOMAIN DataOf(r) |-> SpecificationEntry(DataOf(r)[i])]]))

\* getApiSpecifications(api, apiId, portalId, portalAccessToken)
GetApiSpecifications(apiId, portalId, portalAccessToken, resps, g) ==
    SpecificationsHandled(GetDevPortalApiSpecifications(apiId, portalId,
                                                        portalAccessToken, resps, g))

\* the subscription object subscribeToApi returns, read from result
SubscribedObject(result) ==
    [t |-> "object",
     subscription |-> [subscriptionId |-> Prop(result, "id"),
                       apiId |-> Prop(result, "api_id"),
                       applicationId |-> Prop(result, "application_id"),
                       status |-> Prop(result, "status")]]

\* subscribeToApi, given what api.createDevPortalSubscription came back with
Subscribed(r) ==
    IF ~r.out.ok THEN r ELSE WithOut(r, Ok(SubscribedObject(r.out.value)))

\* SubscribeAfterCreate that subscribes with the identifier the caller passed
SubscribeAfterCreateLiteral(apiId, portalId, portalAccessToken, resps, g, a) ==
    IF ~a.out.ok THEN a
    ELSE Subscribed(Following(a.sent,
             CreateDevPortalSubscription(apiId, "new", portalId, portalAccessToken,
                                         RespAt(resps, 2), CachedHit(g))))

\* SubscribeAfterCreate that goes on to subscribe whatever the creation came back with
SubscribeAfterCreateAnyway(apiId, portalId, portalAccessToken, resps, g, a) ==
    Subscribed(Following(a.sent,
        CreateDevPortalSubscription(apiId, "new", portalId, portalAccessToken,
                                    RespAt(resps, 2), CachedHit(g))))

\* subscribeToApi after api.createDevPortalApplication came back with a
SubscribeAfterCreate(apiId, portalId, portalAccessToken, resps, g, a) ==
    IF ~a.out.ok THEN a
    ELSE IF Nullish(a.out.value)
    THEN WithOut(a, Thrown(CannotRead(a.out.value.t, "id")))
    ELSE Subscribed(Following(a.sent,
             CreateDevPortalSubscription(apiId, Prop(a.out.value, "id"), portalId,
                                         portalAccessToken, RespAt(resps, 2),
                                         CachedHit(g))))

\* CreatesApplication without the test of appName
CreatesApplicationUnnamed(applicationId, appName) == applicationId = "new"

\* `applicationId === "new" && appName`
CreatesApplication(applicationId, appName) == applicationId = "new" /\ Truthy(appName)

\* subscribeToApi(api, apiId, applicationId, appName, appDescription, portalId,
\*                portalAccessToken)
SubscribeToApi(apiId, applicationId, appName, appDescription, portalId, portalAccessToken, resps, g) ==
    IF CreatesApplication(applicationId, appName)
    THEN SubscribeAfterCreate(apiId, portalId, portalAccessToken, resps, g,
             CreateDevPortalApplication(appName, OrElse(appDescription, ""), portalId,
                                        portalAccessToken, RespAt(resps, 1), g))
    ELSE Subscribed(CreateDevPortalSubscription(apiId, applicationId, portalId,
                                                portalAccessToken, RespAt(resps, 1), g))

\* the object generateApiKey returns
ApiKeyObject(result, applicationId) ==
    [t |-> "object",
     apiKey |-> [id |-> Prop(result, "id"), key |-> Prop(result, "credential"),
                 name |-> Prop(result, "display_name"), applicationId |-> applicationId]]

\* generateApiKey, given what api.createDevPortalApiKey came back with
ApiKeyGenerated(applicationId, r) ==
    IF ~r.out.ok THEN r
    ELSE IF Nullish(r.out.value)
    THEN WithOut(r, Thrown(CannotRead(r.out.value.t, "id")))
    ELSE WithOut(r, Ok(ApiKeyObject(r.out.value, applicationId)))

\* generateApiKey(api, applicationId, name, expiresIn, portalId, portalAccessToken)
GenerateApiKey(applicationId, name, expiresIn, portalId, portalAccessToken, resp, g) ==
    ApiKeyGenerated(applicationId,
                    CreateDevPortalApiKey(applicationId, OrElse(name, "API Key"),
                                          expiresIn, portalId, portalAccessToken,
                                          resp, g))

-----------------------------------------------------------------------------
(* The environment: configurations, arguments and upstream responses *)

\* `https://${apiRegion}.api.konghq.com/v2`
AdminBaseUrlOf(apiRegion) == <<"https://", apiRegion, ".api.konghq.com", "/", "v2">>

\* region, access token and default developer credentials the process starts with
Configs ==
    { [region |-> "us", apiKey |-> "",
       env |-> [DEV_PORTAL_USER |-> UNDEF, DEV_PORTAL_PASSWORD |-> UNDEF]],
      [region |-> "eu", apiKey |-> "kpat_1",
       env |-> [DEV_PORTAL_USER |-> "dev@env", DEV_PORTAL_PASSWORD |-> "env-pw"]],
      [region |-> "us", apiKey |-> "kpat_1",
       env |-> [DEV_PORTAL_USER |-> "dev@env", DEV_PORTAL_PASSWORD |-> UNDEF]],
      [region |-> "eu", apiKey |-> "",
       env |-> [DEV_PORTAL_USER |-> UNDEF, DEV_PORTAL_PASSWORD |-> "env-pw"]] }

PortalIds == {"p1", HardcodedPortalId}

\* the records an admin listing can hold: id and canonical_domain
PortalEntries ==
    { [id |-> "p1", canonical_domain |-> "one.example"],
      [id |-> "p1", canonical_domain |-> "moved.example"],
      [id |-> HardcodedPortalId, canonical_domain |-> "two.example"] }

\* sequences over S of length at most n
SeqUpTo(S, n) == UNION { [1..k -> S] : k \in 0..n }

Listings == SeqUpTo(PortalEntries, MaxListing)

\* what the admin API answers to the list-portals call
ListResponses ==
    { Response(200, JListing(l), << >>) : l \in Listings } \cup
    { Response(200, JPagedListing(<<e>>), << >>) : e \in PortalEntries } \cup
    { Response(204, JStr(<< >>), << >>), Response(500, JObjMsg("boom"), << >>), NoResponse }

\* the bodies of a rejected request
ErrorBodies ==
    { JObjMsg("denied"), JBase, JStr(<<"oops">>), JStr(<< >>), JNull, JNum, JUndefined }

\* what an endpoint answers to a request of the generic path
Responses ==
    { Response(404, b, << >>) : b \in ErrorBodies } \cup
    { Response(200, b, << >>) : b \in {JBase, JStr(<<"text">>)} } \cup
    { Response(204, b, << >>) : b \in {JStr(<< >>), JBase} } \cup
    { Response(302, JStr(<< >>), << >>), NoResponse, SetupFailure }

\* the Set-Cookie values of a login response
CookieEntries ==
    { [name |-> "portalaccesstoken", value |-> "T1"],
      [name |-> "portalaccesstoken", value |-> "T2"],
      [name |-> "portalaccesstoken", value |-> ""],
      [name |-> "sid", value |-> "x"] }

\* a response sets a cookie name at most once
SetCookies ==
    { c \in SeqUpTo(CookieEntries, MaxSetCookie) :
        Cardinality({ i \in DOMAIN c : c[i].name = "portalaccesstoken" }) <= 1 }

\* what the portal answers to the login request
AuthResponses ==
    { Response(st, JStr(<< >>), c) : st \in {204, 302}, c \in SetCookies } \cup
    { Response(401, JObjMsg("denied"), << >>), NoResponse }

\* the listing responses an operation on portalId can consume
ListResponsesFor(usesPortal, portalId) ==
    IF usesPortal /\ NeedsListing(portalId) THEN ListResponses ELSE {NotAsked}

\* the token of the portalaccesstoken cookie a login response carries, or UNDEF
CarriedToken(setCookie) ==
    LET S == { i \in DOMAIN setCookie :
                 setCookie[i].name = "portalaccesstoken" /\ setCookie[i].value # "" }
    IN  IF S = {} THEN UNDEF ELSE setCookie[CHOOSE i \in S : TRUE].value

\* issued after a login on portalId that ended with out and consumed authResp
IssuedAfter(portalId, out, authResp) ==
    IF out.ok /\ CarriedToken(authResp.setCookie) # UNDEF
    THEN (portalId :> CarriedToken(authResp.setCookie)) @@ issued
    ELSE issued

-----------------------------------------------------------------------------
(* The state machine *)

NoArgs ==
    [endpoint |-> << >>, usePortal |-> FALSE, portalId |-> UNDEF, cookies |-> Undefined,
     token |-> UNDEF, username |-> UNDEF, password |-> UNDEF, raw |-> << >>]

\* the record of an operation
Ran(op, args, listResp, resp, out, sent, bodyRead, url, tool) ==
    [op |-> op, args |-> args, listResp |-> listResp, resp |-> resp, out |-> out,
     sent |-> sent, bodyRead |-> bodyRead, url |-> url, tool |-> tool,
     resps |-> IF resp.kind = "notAsked" THEN << >> ELSE <<resp>>,
     before |-> [urls |-> portalBaseUrls, cookies |-> portalAuthCookies]]

\* no operation has a result waiting for the caller
Idle ==
    [op |-> "idle", args |-> NoArgs, listResp |-> NotAsked, resp |-> NotAsked,
     out |-> Ok(JNull), sent |-> << >>, bodyRead |-> FALSE, url |-> << >>,
     tool |-> NoTool, resps |-> << >>, before |-> [urls |-> << >>, cookies |-> << >>]]

InitClient ==
    /\ \E c \in Configs :
         /\ adminBaseUrl = AdminBaseUrlOf(c.region)
         /\ apiKey = c.apiKey
         /\ env = c.env
    /\ portalBaseUrls = << >>
    /\ portalAuthCookies = << >>
    /\ issued = << >>
    /\ secrets = {}
    /\ last = Idle

\* the client of part_000, the api.ts the handlers are written against
Init == build = "part_000" /\ InitClient

\* the client of part_001, the copy with the hard-coded portal
InitLegacy == build = "part_001" /\ InitClient

\* the state after a call of getPortalBaseUrl that came back with g
DoneResolve(portalId, listResp, g) ==
    /\ portalBaseUrls' = g.urls
    /\ last' = Ran("getPortalBaseUrl", [NoArgs EXCEPT !.portalId = portalId],
                   listResp, NotAsked, IF g.ok THEN Ok(JNull) ELSE Thrown(g.error),
                   g.sent, FALSE, g.url, NoTool)
    /\ UNCHANGED <<build, adminBaseUrl, apiKey, env, portalAuthCookies, issued, secrets>>

\* a caller resolves a portal's base URL
CallGetPortalBaseUrl ==
    /\ last = Idle
    /\ \E portalId \in PortalIds :
       \E listResp \in ListResponses :
           DoneResolve(portalId, listResp, GetPortalBaseUrl(portalId, listResp))

\* the endpoints a caller passes to kongRequest
Endpoints ==
    { <<"/", "v3", "/", "portals">>,
      <<"/", "api", "/", "v3", "/", "apis">>,
      <<"/", "control-planes">> }

\* the argument combinations of kongRequest
KongArgs ==
    { [NoArgs EXCEPT !.endpoint = e, !.usePortal = TRUE, !.portalId = p, !.cookies = c] :
        e \in Endpoints, p \in PortalIds \cup {UNDEF},
        c \in {Undefined, << >>, CookieString("TX")} }
    \cup
    { [NoArgs EXCEPT !.endpoint = e, !.usePortal = FALSE, !.portalId = p, !.cookies = c] :
        e \in Endpoints, p \in {UNDEF, "p1"}, c \in {Undefined, CookieString("TX")} }

\* the responses a request through kongRequest can consume
ResponsesFor(usesPortal, portalId, listResp) ==
    IF usesPortal /\ ~GetPortalBaseUrl(portalId, listResp).ok
    THEN {NotAsked}
    ELSE Responses

\* the state after a call that went through kongRequest and came back with r
DoneRequest(op, args, listResp, resp, r) ==
    /\ portalBaseUrls' = r.urls
    /\ last' = Ran(op, args, listResp, resp, r.out, r.sent, r.bodyRead, << >>, NoTool)
    /\ UNCHANGED <<build, adminBaseUrl, apiKey, env, portalAuthCookies, issued, secrets>>

\* a caller makes a request through kongRequest
CallKongRequest ==
    /\ last = Idle
    /\ \E a \in KongArgs :
       \E listResp \in ListResponsesFor(UsesPortal(a.usePortal, a.portalId), a.portalId) :
       \E resp \in ResponsesFor(UsesPortal(a.usePortal, a.portalId), a.portalId, listResp) :
           DoneRequest("kongRequest", a, listResp, resp,
                       KongRequest(a.endpoint, "GET", NoData, a.usePortal, a.portalId,
                                   a.cookies, listResp, resp))

\* a caller lists the APIs of a portal
CallListDevPortalApis ==
    /\ last = Idle
    /\ \E portalId \in PortalIds \cup {UNDEF} :
       \E token \in {UNDEF, "", "TX"} :
       \E pageNumber \in {UNDEF, "2"} :
       \E listResp \in ListResponsesFor(Truthy(portalId), portalId) :
       \E resp \in (IF ~Truthy(portalId) /\ build = "part_000" THEN {NotAsked}
                    ELSE ResponsesFor(Truthy(portalId), portalId, listResp)) :
           DoneRequest("listDevPortalApis",
                       [NoArgs EXCEPT !.portalId = portalId, !.token = token],
                       listResp, resp,
                       ListDevPortalApis(UNDEF, pageNumber, UNDEF, UNDEF, UNDEF, portalId,
                                         token, listResp, resp))

\* TRUE when authenticate gets as far as resolving the portal
HasCredentials(username, password) ==
    Truthy(DeveloperUsername(username)) /\ Truthy(DeveloperPassword(password))

\* the login responses an authenticate call can consume
AuthResponsesFor(portalId, username, password, listResp) ==
    IF HasCredentials(username, password) /\ GetPortalBaseUrl(portalId, listResp).ok
    THEN AuthResponses
    ELSE {NotAsked}

\* the state after a login on portalId that came back with r
DoneAuthenticate(op, args, listResp, authResp, r, tool) ==
    /\ portalBaseUrls' = r.urls
    /\ portalAuthCookies' = r.cookies
    /\ issued' = IssuedAfter(args.portalId, r.out, authResp)
    /\ last' = Ran(op, args, listResp, authResp, r.out, r.sent, FALSE, << >>, tool)
    /\ UNCHANGED <<build, adminBaseUrl, apiKey, env, secrets>>

\* a login through the client, untouched by the dispatcher
DoneApiAuthenticate(args, listResp, authResp, r) ==
    DoneAuthenticate("authenticate", args, listResp, authResp, r, NoTool)

\* a caller logs a developer in through the client
CallAuthenticate ==
    /\ last = Idle
    /\ \E portalId \in PortalIds :
       \E username \in {UNDEF, "alice"} :
       \E password \in {UNDEF, "alice-pw"} :
       \E listResp \in ListResponsesFor(HasCredentials(username, password), portalId) :
       \E authResp \in AuthResponsesFor(portalId, username, password, listResp) :
           DoneApiAuthenticate([NoArgs EXCEPT !.portalId = portalId,
                                             !.username = username,
                                             !.password = password],
                               listResp, authResp,
                               AuthenticateDevPortalDeveloper(portalId, username, password,
                                                              listResp, authResp))

\* the argument objects a caller sends to authenticate_developer_portal
RawAuthArgs ==
    { [portalId |-> p] : p \in PortalIds } \cup
    { [portalId |-> p, username |-> "alice", password |-> "alice-pw"] : p \in PortalIds } \cup
    { [portalId |-> p, password |-> "alice-pw"] : p \in PortalIds } \cup
    { [portalId |-> p, username |-> "alice"] : p \in PortalIds } \cup
    { [portalId |-> p, email |-> "alice", password |-> "alice-pw"] : p \in PortalIds }

\* a login through the dispatcher: the tool result is rendered from the outcome
DoneToolAuthenticate(raw, listResp, authResp, r) ==
    DoneAuthenticate("authenticate_developer_portal",
                     [NoArgs EXCEPT !.portalId = raw.portalId, !.raw = raw],
                     listResp, authResp, r, Render(r.out))

\* the tool authenticate_developer_portal is invoked with the parsed arguments args
ToolAuthenticateWith(raw, args) ==
    \E listResp \in ListResponsesFor(HasCredentials(Arg(args, "email"),
                                                     Arg(args, "password")),
                                      Arg(args, "portalId")) :
    \E authResp \in AuthResponsesFor(Arg(args, "portalId"), Arg(args, "email"),
                                      Arg(args, "password"), listResp) :
        DoneToolAuthenticate(raw, listResp, authResp,
                             DispatchAuthenticate(args, listResp, authResp))

\* the tool authenticate_developer_portal is invoked
ToolAuthenticate ==
    /\ last = Idle
    /\ \E raw \in RawAuthArgs :
           ToolAuthenticateWith(raw, ParseArgs(AuthenticateShape, raw))

-----------------------------------------------------------------------------
(* The handlers of operations/devPortal.ts: arguments, upstream answers, actions *)

\* the portal a handler is called for, or none
HandlerPortalIds == {"p1", UNDEF}

\* the handlers are called without a token: the session cookie, if any, is used
HandlerTokens == {UNDEF}

\* what the admin API answers when a handler's first request resolves the portal
HandlerListResponses ==
    { Response(200, JListing(<<[id |-> "p1", canonical_domain |-> "one.example"]>>), << >>),
      Response(200, JListing(<< >>), << >>),
      NoResponse }

\* the listing responses a handler called for portalId can consume
HandlerListResponsesFor(portalId) ==
    IF Truthy(portalId) /\ NeedsListing(portalId) THEN HandlerListResponses ELSE {NotAsked}

\* an answer that fails the request
FailureResponses == { Response(404, JObjMsg("denied"), << >>), NoResponse }

\* answers whose body has not the shape of the endpoint
OddResponses ==
    { Response(200, JBase, << >>), Response(200, JNull, << >>),
      Response(200, JStr(<<"text">>), << >>), Response(204, JStr(<< >>), << >>) }

\* the secret the portal issues for a new credential
IssuedSecret == "K1"

\* the applications the portal holds; the second record carries its credential
ApplicationRecords ==
    { [id |-> "app-1", name |-> "Test App", description |-> "", status |-> "active"],
      [id |-> "app-2", name |-> "Other", description |-> "d", status |-> "active",
       credential |-> IssuedSecret] }

\* what the portal answers to a listing of applications
ApplicationListResponses ==
    { Response(200, JListing(l), << >>) : l \in SeqUpTo(ApplicationRecords, MaxListing) }
    \cup OddResponses \cup FailureResponses

\* what the portal answers to the creation of an application
ApplicationResponses ==
    { Response(201, [t |-> "object", id |-> "app-1", name |-> "Test App"], << >>),
      Response(201, [t |-> "object", id |-> "app-2", name |-> "Test App"], << >>),
      Response(200, JNull, << >>),
      Response(204, JStr(<< >>), << >>) }
    \cup FailureResponses

\* the registrations the portal holds
RegistrationRecords ==
    { [id |-> "sub-1", api_id |-> "api-1", application_id |-> "app-1",
       status |-> "approved"],
      [id |-> "sub-2", api_id |-> "api-1", application_id |-> "app-2",
       status |-> "pending"] }

\* what the portal answers to the creation of a registration
RegistrationResponses ==
    { Response(201, [t |-> "object"] @@ rec, << >>) : rec \in RegistrationRecords }
    \cup { Response(200, JNull, << >>), Response(204, JStr(<< >>), << >>) }
    \cup FailureResponses

\* what the portal answers to a listing of registrations
RegistrationListResponses ==
    { Response(200, JListing(l), << >>) : l \in SeqUpTo(RegistrationRecords, MaxListing) }
    \cup OddResponses \cup FailureResponses

\* the specifications of an API
SpecificationRecords ==
    { [id |-> "s1", type |-> "oas3"], [id |-> "s2", type |-> "asyncapi"] }

\* what the portal answers to the discovery call
DiscoveryResponses ==
    { Response(200, JListing(l), << >>) : l \in SeqUpTo(SpecificationRecords, MaxSpecs) }
    \cup OddResponses \cup FailureResponses

\* what the portal answers to the request of one specification
ContentResponses ==
    { Response(200, [t |-> "object", content |-> "openapi: 3"], << >>),
      Response(200, JNull, << >>) }
    \cup FailureResponses

\* what the portal answers to the creation of a credential
CredentialResponses ==
    { Response(201, [t |-> "object", id |-> "cred-1", credential |-> IssuedSecret,
                     display_name |-> "API Key"], << >>),
      Response(200, JNull, << >>) }
    \cup FailureResponses

\* what the portal answers to a listing of APIs
ApiListResponses ==
    { Response(200, JListing(l), << >>) :
        l \in SeqUpTo({[id |-> "api-1", name |-> "Pets", description |-> "",
                        version |-> "v1"]}, 1) }
    \cup OddResponses \cup FailureResponses

\* the responses of an operation that sends at most one request
AtMostOne(S) == { << >> } \cup { <<r>> : r \in S }

\* the arguments of a handler call, as the record of the operation keeps them
HandlerArgs(portalId, token, raw) ==
    [NoArgs EXCEPT !.portalId = portalId, !.token = token, !.raw = raw]

\* the secrets a handler's outcome hands to the caller
SecretsOf(op, out) ==
    IF op = "generateApiKey" /\ out.ok /\ out.value.apiKey.key # UNDEF
    THEN {out.value.apiKey.key}
    ELSE {}

\* the state after a tool's handler that consumed listResp and resps came back with r:
\* the dispatcher renders the outcome
DoneHandler(op, args, listResp, resps, r) ==
    /\ Len(r.sent) = Len(resps) + (IF listResp.kind = "notAsked" THEN 0 ELSE 1)
    /\ portalBaseUrls' = r.urls
    /\ secrets' = secrets \cup SecretsOf(op, r.out)
    /\ last' = [Ran(op, args, listResp, RespAt(resps, Len(resps)), r.out, r.sent,
                    r.bodyRead, << >>, Render(r.out)) EXCEPT !.resps = resps]
    /\ UNCHANGED <<build, adminBaseUrl, apiKey, env, portalAuthCookies, issued>>

\* the page arguments of the list handlers
PageArgs == { [pageSize |-> ps, pageNumber |-> pn] : ps \in {UNDEF, "25"}, pn \in {UNDEF, "2"} }

\* list_portals
CallListPortals ==
    /\ last = Idle
    /\ \E raw \in PageArgs :
       \E resps \in AtMostOne(ListResponses) :
           DoneHandler("listPortals", HandlerArgs(UNDEF, UNDEF, raw), NotAsked, resps,
                       ListPortals(raw.pageSize, raw.pageNumber, RespAt(resps, 1)))

\* list_apis
CallListApis ==
    /\ last = Idle
    /\ \E raw \in PageArgs :
       \E portalId \in HandlerPortalIds :
       \E token \in HandlerTokens :
       \E listResp \in HandlerListResponsesFor(portalId) :
       \E resps \in AtMostOne(ApiListResponses) :
           DoneHandler("listApis", HandlerArgs(portalId, token, raw), listResp, resps,
                       ListApis(raw.pageSize, raw.pageNumber, portalId, token, listResp,
                                RespAt(resps, 1)))

\* list_applications
CallListApplications ==
    /\ last = Idle
    /\ \E raw \in PageArgs :
       \E portalId \in HandlerPortalIds :
       \E token \in HandlerTokens :
       \E listResp \in HandlerListResponsesFor(portalId) :
       \E resps \in AtMostOne(ApplicationListResponses) :
           DoneHandler("listApplications", HandlerArgs(portalId, token, raw), listResp,
                       resps,
                       ListApplications(raw.pageSize, raw.pageNumber, portalId, token,
                                        RespAt(resps, 1),
                                        GetPortalBaseUrl(portalId, listResp)))

\* the filter arguments of list_subscriptions, with the page arguments
SubscriptionListArgs ==
    { [pageSize |-> ps, pageNumber |-> pn, applicationId |-> a, apiId |-> UNDEF] :
        ps \in {UNDEF, "25"}, pn \in {UNDEF, "2"}, a \in {UNDEF, "app-1"} }

\* list_subscriptions
CallListSubscriptions ==
    /\ last = Idle
    /\ \E raw \in SubscriptionListArgs :
       \E portalId \in HandlerPortalIds :
       \E listResp \in HandlerListResponsesFor(portalId) :
       \E resps \in AtMostOne(RegistrationListResponses) :
           DoneHandler("listSubscriptions", HandlerArgs(portalId, UNDEF, raw), listResp,
                       resps,
                       ListSubscriptions(raw.applicationId, raw.apiId, raw.pageSize,
                                         raw.pageNumber, portalId, UNDEF,
                                         RespAt(resps, 1),
                                         GetPortalBaseUrl(portalId, listResp)))

\* the responses get_api_specifications can consume: the discovery, then the contents
SpecificationResponses ==
    { << >> } \cup
    { <<d>> \o f : d \in DiscoveryResponses, f \in SeqUpTo(ContentResponses, MaxSpecs) }

\* get_api_specifications
CallGetApiSpecifications ==
    /\ last = Idle
    /\ \E portalId \in HandlerPortalIds :
       \E listResp \in HandlerListResponsesFor(portalId) :
       \E resps \in SpecificationResponses :
           DoneHandler("getApiSpecifications",
                       HandlerArgs(portalId, UNDEF, [apiId |-> "api-1"]), listResp, resps,
                       GetApiSpecifications("api-1", portalId, UNDEF, resps,
                                            GetPortalBaseUrl(portalId, listResp)))

\* the arguments of subscribe_to_api
SubscribeArgs ==
    { [apiId |-> "api-1", applicationId |-> a, appName |-> n, appDescription |-> UNDEF] :
        a \in {"new", "app-1"}, n \in {UNDEF, "", "Test App"} }

\* the responses subscribe_to_api can consume
SubscribeResponses(createsApplication) ==
    IF createsApplication
    THEN AtMostOne(ApplicationResponses) \cup
         { <<a, b>> : a \in ApplicationResponses, b \in RegistrationResponses }
    ELSE AtMostOne(RegistrationResponses)

\* subscribe_to_api
CallSubscribeToApi ==
    /\ last = Idle
    /\ \E raw \in SubscribeArgs :
       \E portalId \in HandlerPortalIds :
       \E token \in HandlerTokens :
       \E listResp \in HandlerListResponsesFor(portalId) :
       \E resps \in SubscribeResponses(CreatesApplication(raw.applicationId, raw.appName)) :
           DoneHandler("subscribeToApi", HandlerArgs(portalId, token, raw), listResp, resps,
                       SubscribeToApi(raw.apiId, raw.applicationId, raw.appName,
                                      raw.appDescription, portalId, token, resps,
                                      GetPortalBaseUrl(portalId, listResp)))

\* generate_api_key
CallGenerateApiKey ==
    /\ last = Idle
    /\ \E portalId \in HandlerPortalIds :
       \E name \in {UNDEF, "ci"} :
       \E listResp \in HandlerListResponsesFor(portalId) :
       \E resps \in AtMostOne(CredentialResponses) :
           DoneHandler("generateApiKey",
                       HandlerArgs(portalId, UNDEF,
                                   [applicationId |-> "app-1", name |-> name]),
                       listResp, resps,
                       GenerateApiKey("app-1", name, UNDEF, portalId, UNDEF,
                                      RespAt(resps, 1),
                                      GetPortalBaseUrl(portalId, listResp)))

\* the caller takes the result; the client waits for the next call
Return ==
    /\ last # Idle
    /\ last' = Idle
    /\ UNCHANGED <<build, adminBaseUrl, apiKey, env, portalBaseUrls, portalAuthCookies,
                   issued, secrets>>

\* the operations of the client, and the login tool
ClientNext ==
    \/ Return
    \/ CallGetPortalBaseUrl
    \/ CallKongRequest
    \/ CallListDevPortalApis
    \/ CallAuthenticate
    \/ ToolAuthenticate

\* the handlers, which are written against the client of part_000
HandlerNext ==
    \/ CallListPortals
    \/ CallListApis
    \/ CallListApplications
    \/ CallListSubscriptions
    \/ CallGetApiSpecifications
    \/ CallSubscribeToApi
    \/ CallGenerateApiKey

Next == ClientNext \/ HandlerNext

Spec == Init /\ [][Next]_vars

\* the records of an admin listing, one of them without a canonical domain
PortalRecords == PortalEntries \cup { [id |-> "p1", canonical_domain |-> UNDEF] }

\* a caller resolves a portal's base URL while the admin API lists such records
CallGetPortalBaseUrlListed ==
    /\ last = Idle
    /\ \E portalId \in PortalIds :
       \E l \in SeqUpTo(PortalRecords, MaxListing) :
           DoneResolve(portalId, Response(200, JListing(l), << >>),
                       GetPortalBaseUrl(portalId, Response(200, JListing(l), << >>)))

\* the resolver alone, on the client of part_000
SpecListing == Init /\ [][Return \/ CallGetPortalBaseUrlListed]_vars

SpecLegacy == InitLegacy /\ [][ClientNext]_vars

-----------------------------------------------------------------------------
(* What the properties look at *)

\* the portal the operation that has just run was called for
CalledPortal == last.args.portalId

\* the operation went through kongRequest's portal branch
PortalCall ==
    \/ last.op = "kongRequest" /\ last.args.usePortal /\ CalledPortal \notin {UNDEF, ""}
    \/ last.op = "listDevPortalApis" /\ CalledPortal \notin {UNDEF, ""}

\* the operation is a login
LoginCall == last.op \in {"authenticate", "authenticate_developer_portal"}

\* the operation sent its own request (the last one it sent) and consumed last.resp
TargetSent == last.resp.kind # "notAsked" /\ Len(last.sent) >= 1

\* the operation's own request
TargetRequest == last.sent[Len(last.sent)]

\* the cookie string the caller supplied for this call, << >> when none was
SuppliedCookie ==
    IF last.op = "kongRequest"
    THEN (IF last.args.cookies = Undefined THEN << >> ELSE last.args.cookies)
    ELSE IF last.args.token \in {UNDEF, ""} THEN << >>
    ELSE <<"portalaccesstoken=", last.args.token>>

\* the request carries no header of that name
Lacks(req, name) == name \notin DOMAIN req.headers

\* the request carries that header with that value
Carries(req, name, value) == name \in DOMAIN req.headers /\ req.headers[name] = value

-----------------------------------------------------------------------------
(* C1: a request in portal context goes to the resolved base URL of its   *)
(* portal, and its Cookie header is the token supplied for the call if    *)
(* there is one, else the session cookie cached for the portal if there   *)
(* is one, else absent, whatever logins and requests came before.         *)
C1_PortalRequestTargetAndCookie ==
    (PortalCall /\ TargetSent) =>
        /\ CalledPortal \in DOMAIN portalBaseUrls
        /\ SubSeq(TargetRequest.url, 1, 2) = portalBaseUrls[CalledPortal]
        /\ CalledPortal \in DOMAIN last.before.urls
              => SubSeq(TargetRequest.url, 1, 2) = last.before.urls[CalledPortal]
        /\ IF SuppliedCookie # << >>
           THEN Carries(TargetRequest, "Cookie", SuppliedCookie)
           ELSE IF CalledPortal \in DOMAIN last.before.cookies
           THEN Carries(TargetRequest, "Cookie", last.before.cookies[CalledPortal])
           ELSE Lacks(TargetRequest, "Cookie")

\* a portal request that supplied a token while another one was cached for the portal
C1_Witness ==
    /\ PortalCall /\ TargetSent
    /\ SuppliedCookie # << >>
    /\ CalledPortal \in DOMAIN last.before.cookies
    /\ last.before.cookies[CalledPortal] # SuppliedCookie
    /\ Carries(TargetRequest, "Cookie", SuppliedCookie)

-----------------------------------------------------------------------------
\* the admin base URL without its version segment
AdminHost == <<"https://", adminBaseUrl[2], ".api.konghq.com">>

\* the URL an admin request for that endpoint must have
ExpectedAdminUrl(endpoint) ==
    IF Len(endpoint) >= 2 /\ endpoint[1] = "/" /\ endpoint[2] = "v3"
    THEN AdminHost \o endpoint
    ELSE AdminHost \o <<"/", "v2">> \o endpoint

\* the request is an admin request for that endpoint
IsAdminRequest(req, endpoint) ==
    /\ req.url = ExpectedAdminUrl(endpoint)
    /\ Carries(req, "Authorization", <<"Bearer ", apiKey>>)
    /\ Lacks(req, "Cookie")

(* C2: a request made with usePortalContext false or absent goes to the    *)
(* admin base URL, without its /v2 segment when the endpoint begins with   *)
(* /v3, and carries Authorization: Bearer <the configured API key>.  The   *)
(* list-portals call of a resolution is such a request.                    *)
C2_AdminRequestTargetAndBearer ==
    /\ (last.op = "kongRequest" /\ ~last.args.usePortal) =>
          /\ Len(last.sent) = 1
          /\ IsAdminRequest(last.sent[1], last.args.endpoint)
    /\ (last.op = "getPortalBaseUrl" /\ last.sent # << >>) =>
          IsAdminRequest(last.sent[1], <<"/", "v3", "/", "portals", "?page[size]=", "10">>)

\* an admin request for a /v3 endpoint went out, without /v2 in its URL
C2_Witness ==
    /\ last.op = "kongRequest" /\ ~last.args.usePortal
    /\ last.args.endpoint = <<"/", "v3", "/", "portals">>
    /\ last.sent[1].url = <<"https://", "eu", ".api.konghq.com", "/", "v3", "/", "portals">>
    /\ Carries(last.sent[1], "Authorization", <<"Bearer ", "kpat_1">>)

-----------------------------------------------------------------------------
(* C3: a first, successful resolution of a portal identifier makes exactly *)
(* one admin list-portals call and caches the URL; every later resolution  *)
(* of that identifier makes no call and returns the cached URL, which no   *)
(* operation changes.                                                      *)
C3_ResolveOnceThenCached ==
    /\ (last.op = "getPortalBaseUrl" /\ CalledPortal \in DOMAIN last.before.urls) =>
          /\ last.out.ok
          /\ last.sent = << >>
          /\ last.url = last.before.urls[CalledPortal]
    /\ (last.op = "getPortalBaseUrl" /\ CalledPortal \notin DOMAIN last.before.urls
          /\ last.out.ok) =>
          /\ Len(last.sent) = 1
          /\ IsAdminRequest(last.sent[1], <<"/", "v3", "/", "portals", "?page[size]=", "10">>)
          /\ CalledPortal \in DOMAIN portalBaseUrls
          /\ portalBaseUrls[CalledPortal] = last.url
    /\ (PortalCall \/ LoginCall) /\ CalledPortal \in DOMAIN last.before.urls =>
          \A i \in DOMAIN last.sent : Lacks(last.sent[i], "Authorization")
    /\ last.op # "idle" =>
          \A q \in DOMAIN last.before.urls :
              q \in DOMAIN portalBaseUrls /\ portalBaseUrls[q] = last.before.urls[q]

\* a second resolution: served from the cache although the admin API now lists the
\* portal under another domain
C3_Witness ==
    /\ last.op = "getPortalBaseUrl"
    /\ CalledPortal = "p1"
    /\ "p1" \in DOMAIN last.before.urls
    /\ last.before.urls["p1"] = <<"https://", "one.example">>
    /\ last.listResp = Response(200, JListing(<<[id |-> "p1",
                                                 canonical_domain |-> "moved.example"]>>), << >>)
    /\ last.sent = << >>
    /\ last.url = <<"https://", "one.example">>

-----------------------------------------------------------------------------
\* the admin API answers the list-portals call with a listing that lacks the portal
NotListed(portalId, listResp) ==
    /\ listResp.kind = "response" /\ listResp.status = 200
    /\ listResp.data.t = "object" /\ listResp.data.hasData
    /\ \A i \in DOMAIN listResp.data.data : listResp.data.data[i].id # portalId

\* the error is getPortalBaseUrl's Not Found
IsNotFound(out, portalId) ==
    ~out.ok /\ out.error.message = <<"Portal with ID ", portalId, " not found">>

(* C4: resolving a portal identifier that the admin listing does not hold  *)
(* (and that was not resolved before) fails with Not Found and leaves the  *)
(* resolved-URL cache as it was.                                           *)
C4_UnlistedPortalNotFound ==
    (/\ last.op = "getPortalBaseUrl"
     /\ CalledPortal \notin DOMAIN last.before.urls
     /\ NotListed(CalledPortal, last.listResp)) =>
        /\ IsNotFound(last.out, CalledPortal)
        /\ portalBaseUrls = last.before.urls

-----------------------------------------------------------------------------
(* C5: after a login for portal P succeeded with a response carrying       *)
(* Set-Cookie: portalaccesstoken=T, every later portal request for P that  *)
(* supplies no token carries Cookie: portalaccesstoken=T (issued[P] is the *)
(* T of the latest such login).                                            *)
C5_IssuedCookieReused ==
    (/\ PortalCall /\ TargetSent
     /\ SuppliedCookie = << >>
     /\ CalledPortal \in DOMAIN issued) =>
        Carries(TargetRequest, "Cookie", <<"portalaccesstoken=", issued[CalledPortal]>>)

\* a portal request without a token, sent for a portal whose login issued T1
C5_Witness ==
    /\ PortalCall /\ TargetSent
    /\ SuppliedCookie = << >>
    /\ CalledPortal \in DOMAIN issued
    /\ issued[CalledPortal] = "T1"
    /\ Carries(TargetRequest, "Cookie", <<"portalaccesstoken=", "T1">>)

-----------------------------------------------------------------------------
\* the login consumed a response of accepted status (2xx or 3xx)
LoginAccepted ==
    /\ LoginCall
    /\ last.resp.kind = "response"
    /\ last.resp.status >= 200 /\ last.resp.status < 400

\* the outcome is the success object of a login
IsLoginSuccess(out) == out.ok /\ out.value.t = "object" /\ out.value.authentication = "success"

(* C6: a login whose accepted response (2xx or 3xx) holds no               *)
(* portalaccesstoken cookie with a value still reports the success         *)
(* object, and sets no session cookie: the cache is as before the call,    *)
(* so a portal without a cached cookie is still without one.               *)
C6_LoginWithoutCookie ==
    (LoginAccepted /\ CarriedToken(last.resp.setCookie) = UNDEF) =>
        /\ IsLoginSuccess(last.out)
        /\ portalAuthCookies = last.before.cookies
        /\ CalledPortal \notin DOMAIN last.before.cookies
              => CalledPortal \notin DOMAIN portalAuthCookies

\* a 302 login response with cookies, none of them a usable portalaccesstoken, on a
\* portal without a cached cookie
C6_Witness ==
    /\ LoginAccepted
    /\ last.resp.status = 302
    /\ last.resp.setCookie # << >>
    /\ CarriedToken(last.resp.setCookie) = UNDEF
    /\ IsLoginSuccess(last.out)
    /\ CalledPortal \notin DOMAIN portalAuthCookies

-----------------------------------------------------------------------------
\* the error is the InvalidCredentials of authenticate
IsInvalidCredentials(out) ==
    /\ ~out.ok
    /\ out.error.message[1] = "Developer credentials not provided and not found in "

\* the login request was sent
LoginSent == LoginCall /\ last.resp.kind # "notAsked" /\ Len(last.sent) >= 1

(* C7: when the tool authenticate_developer_portal is invoked with an      *)
(* explicit username and password, the login is not refused for missing    *)
(* credentials and the login request body carries exactly those values,    *)
(* whatever the default credentials are.                                   *)
C7_ToolExplicitCredentials ==
    (/\ last.op = "authenticate_developer_portal"
     /\ "username" \in DOMAIN last.args.raw
     /\ "password" \in DOMAIN last.args.raw) =>
        /\ ~IsInvalidCredentials(last.out)
        /\ LoginSent =>
              /\ TargetRequest.data.username = last.args.raw.username
              /\ TargetRequest.data.password = last.args.raw.password

-----------------------------------------------------------------------------
\* a credential is present
Given(x) == x \notin {UNDEF, ""}

\* the credential left after an argument falls back to its default
FallsBack(x, default) == IF Given(x) THEN x ELSE default

(* C8, as stated: authenticate fails with InvalidCredentials unless the    *)
(* explicit arguments hold both a username and a password, or the          *)
(* defaults hold both; a username from one source with a password from     *)
(* the other is refused.                                                   *)
C8_OneSourceYieldsBoth ==
    (/\ last.op = "authenticate"
     /\ ~(Given(last.args.username) /\ Given(last.args.password))
     /\ ~(Given(env.DEV_PORTAL_USER) /\ Given(env.DEV_PORTAL_PASSWORD))) =>
        IsInvalidCredentials(last.out)

(* C8, amended: authenticate fails with InvalidCredentials exactly when,   *)
(* after each of username and password has fallen back on its own from     *)
(* the explicit argument to the default, one of them is still missing; it  *)
(* then sends nothing and changes no cache.  A username from one source    *)
(* with a password from the other is accepted.                             *)
C8_EachFieldFallsBack ==
    last.op = "authenticate" =>
        /\ IsInvalidCredentials(last.out) <=>
              \/ ~Given(FallsBack(last.args.username, env.DEV_PORTAL_USER))
              \/ ~Given(FallsBack(last.args.password, env.DEV_PORTAL_PASSWORD))
        /\ IsInvalidCredentials(last.out) =>
              /\ last.sent = << >>
              /\ portalBaseUrls = last.before.urls
              /\ portalAuthCookies = last.before.cookies
        /\ LoginSent =>
              /\ TargetRequest.data.username =
                    FallsBack(last.args.username, env.DEV_PORTAL_USER)
              /\ TargetRequest.data.password =
                    FallsBack(last.args.password, env.DEV_PORTAL_PASSWORD)

\* a login sent with the caller's username and the default password
C8_Witness ==
    /\ last.op = "authenticate"
    /\ last.args.username = "alice" /\ last.args.password = UNDEF
    /\ env.DEV_PORTAL_PASSWORD = "env-pw"
    /\ LoginSent
    /\ TargetRequest.data = [username |-> "alice", password |-> "env-pw"]

-----------------------------------------------------------------------------
\* the operation went through kongRequest
GenericCall == last.op \in {"kongRequest", "listDevPortalApis"}

(* C9: a 204 response to a request of the generic request path yields      *)
(* exactly {success: true}, and the response body is not read.             *)
C9_NoContentIsSuccessTrue ==
    (/\ GenericCall /\ TargetSent
     /\ last.resp.kind = "response" /\ last.resp.status = 204) =>
        /\ last.out.ok
        /\ last.out.value = [JBase EXCEPT !.success = TRUE]
        /\ ~last.bodyRead

\* a 204 that came with a body: the result is {success: true}, not the body
C9_Witness ==
    /\ GenericCall /\ TargetSent
    /\ last.resp.kind = "response" /\ last.resp.status = 204
    /\ last.resp.data = JBase
    /\ last.out.ok
    /\ last.out.value.success
    /\ last.out.value # last.resp.data

-----------------------------------------------------------------------------
\* seq begins with prefix
Begins(seq, prefix) ==
    Len(seq) >= Len(prefix) /\ SubSeq(seq, 1, Len(prefix)) = prefix

(* C10: every failed request of the generic request path is classified     *)
(* into one kind: a non-2xx response, whatever its body, gives an Upstream *)
(* Error whose message includes the status code; a request sent without a  *)
(* response gives a Network Error; any other failure gives a Request       *)
(* Error.                                                                  *)
C10_FailureClassified ==
    (GenericCall /\ TargetSent) =>
        /\ (last.resp.kind = "response"
              /\ ~(last.resp.status >= 200 /\ last.resp.status < 300)) =>
              /\ ~last.out.ok
              /\ Begins(last.out.error.message,
                        <<"API Error (Status ", ToString(last.resp.status), ")">>)
        /\ last.resp.kind = "noResponse" =>
              /\ ~last.out.ok
              /\ Begins(last.out.error.message,
                        <<"Network Error: No response received from Kong API.">>)
        /\ last.resp.kind = "setupError" =>
              /\ ~last.out.ok
              /\ Begins(last.out.error.message, <<"Request Error: ">>)

-----------------------------------------------------------------------------
\* the operation is one of the portal-scoped operations, called directly or by a handler
PortalScopedCall ==
    last.op \in {"listDevPortalApis", "listApis", "listApplications", "listSubscriptions",
                 "getApiSpecifications", "subscribeToApi", "generateApiKey"}

\* no portal was passed to the operation
WithoutPortal == CalledPortal \in {UNDEF, ""}

\* the requests of the operation itself: what it sent after the resolver's lookup
OwnRequests ==
    IF last.listResp.kind = "notAsked" THEN last.sent ELSE Tail(last.sent)

\* both caches are as they were before the operation
CachesUntouched ==
    portalBaseUrls = last.before.urls /\ portalAuthCookies = last.before.cookies

(* C11: every portal-scoped operation (list APIs, list applications, list  *)
(* subscriptions, get API specifications, create application, create       *)
(* subscription, create API key) invoked without a portalId fails with a   *)
(* 'Portal ID is required' error before any request is sent, and leaves    *)
(* both caches unchanged.                                                  *)
C11_PortalIdRequired ==
    (PortalScopedCall /\ WithoutPortal) =>
        /\ ~last.out.ok
        /\ Begins(last.out.error.message, <<"Portal ID is required for ">>)
        /\ last.sent = << >>
        /\ CachesUntouched

-----------------------------------------------------------------------------
\* the handler subscribeToApi ran, for an application to be created first
SubscribeCreating ==
    /\ last.op = "subscribeToApi"
    /\ last.args.raw.applicationId = "new"
    /\ Given(last.args.raw.appName)

\* the response is a success that returns an identifier
ReturnsId(resp) ==
    /\ resp.kind = "response" /\ resp.status >= 200 /\ resp.status < 300
    /\ resp.status # 204
    /\ resp.data.t = "object" /\ "id" \in DOMAIN resp.data

\* the request creates an application on the portal of the call
IsCreateApplication(req) ==
    /\ req.method = "POST"
    /\ req.url = portalBaseUrls[CalledPortal] \o <<"/", "api", "/", "v3", "/", "applications">>
    /\ req.data.name = last.args.raw.appName

\* the request subscribes application applicationId on the portal of the call
IsCreateSubscription(req, applicationId) ==
    /\ req.method = "POST"
    /\ req.url = portalBaseUrls[CalledPortal] \o
                    <<"/", "api", "/", "v3", "/", "applications", "/", applicationId,
                      "/", "registrations">>
    /\ req.data = [api_id |-> last.args.raw.apiId]

(* C12: subscribe_to_api with applicationId = "new" and a non-empty        *)
(* appName, when the creation returns an identifier, sends exactly two     *)
(* requests of its own, in order: create application, then create          *)
(* subscription for the identifier the creation returned.  The only other  *)
(* request is the resolver's list-portals lookup, sent first and only when *)
(* the portal's base URL was not cached.                                   *)
C12_CreateThenSubscribe ==
    (SubscribeCreating /\ Len(last.resps) >= 1 /\ ReturnsId(last.resps[1])) =>
        /\ Len(last.resps) = 2
        /\ Len(OwnRequests) = 2
        /\ IsCreateApplication(OwnRequests[1])
        /\ IsCreateSubscription(OwnRequests[2], last.resps[1].data.id)
        /\ Len(last.sent) = IF CalledPortal \in DOMAIN last.before.urls THEN 2 ELSE 3
        /\ Len(last.sent) = 3 =>
              IsAdminRequest(last.sent[1], <<"/", "v3", "/", "portals", "?page[size]=", "10">>)

\* two requests in all, the subscription made for the application app-2 just created
C12_Witness ==
    /\ SubscribeCreating
    /\ Len(last.sent) = 2
    /\ Len(last.resps) = 2
    /\ ReturnsId(last.resps[1])
    /\ last.resps[1].data.id = "app-2"
    /\ IsCreateApplication(last.sent[1])
    /\ IsCreateSubscription(last.sent[2], "app-2")
    /\ last.out.ok

-----------------------------------------------------------------------------
\* the error kongRequest throws for a response that fails the request
IsErrorOf(error, resp) ==
    IF resp.kind = "response"
    THEN error.message = <<"API Error (Status ", ToString(resp.status), ")", ": ",
                           resp.data.message>>
    ELSE Begins(error.message, <<"Network Error: No response received from Kong API.">>)

\* the response fails a request of the generic path with an error body or without answer
FailsRequest(resp) ==
    \/ resp.kind = "noResponse"
    \/ resp.kind = "response" /\ ~(resp.status >= 200 /\ resp.status < 300)
          /\ resp.data.t = "object" /\ resp.data.message # ""

\* a request for the registrations of some application went out
SubscriptionAttempted ==
    \E i \in DOMAIN last.sent :
        last.sent[i].url[Len(last.sent[i].url)] = "registrations"

(* C13: in subscribe_to_api with implicit application creation, if the     *)
(* create-application call fails, no create-subscription request is sent   *)
(* and the operation fails with the error of the create-application call.  *)
C13_CreateFailureStops ==
    /\ (SubscribeCreating /\ Len(last.resps) >= 1 /\ FailsRequest(last.resps[1])) =>
          /\ Len(last.resps) = 1
          /\ Len(OwnRequests) = 1
          /\ IsCreateApplication(OwnRequests[1])
          /\ ~SubscriptionAttempted
          /\ ~last.out.ok
          /\ IsErrorOf(last.out.error, last.resps[1])
    /\ (SubscribeCreating /\ last.resps = << >>) =>
          /\ ~last.out.ok
          /\ ~SubscriptionAttempted
          /\ ~Begins(last.out.error.message,
                     <<"Portal ID is required for ", "creating subscriptions">>)

\* the creation was answered 404 and the operation failed with that error, one request sent
C13_Witness ==
    /\ SubscribeCreating
    /\ last.resps = <<Response(404, JObjMsg("denied"), << >>)>>
    /\ Len(OwnRequests) = 1
    /\ ~last.out.ok
    /\ last.out.error.message = <<"API Error (Status ", "404", ")", ": ", "denied">>

-----------------------------------------------------------------------------
\* the handler subscribeToApi ran with applicationId "new" and no appName
SubscribeUnnamed ==
    /\ last.op = "subscribeToApi"
    /\ last.args.raw.applicationId = "new"
    /\ ~Given(last.args.raw.appName)

(* C14: subscribe_to_api with applicationId = "new" and no appName (absent *)
(* or empty) sends no create-application request and goes on to the        *)
(* create-subscription call with the literal "new" as the application      *)
(* identifier.                                                             *)
C14_NewWithoutNameIsLiteral ==
    SubscribeUnnamed =>
        /\ Len(last.resps) <= 1
        /\ Len(OwnRequests) = Len(last.resps)
        /\ Len(OwnRequests) = 1 => IsCreateSubscription(OwnRequests[1], "new")
        /\ (~WithoutPortal /\ CalledPortal \in DOMAIN portalBaseUrls) => Len(OwnRequests) = 1
        /\ WithoutPortal =>
              Begins(last.out.error.message,
                     <<"Portal ID is required for ", "creating subscriptions">>)

\* an empty appName: one request, for the registrations of "new", and it succeeded
C14_Witness ==
    /\ SubscribeUnnamed
    /\ last.args.raw.appName = ""
    /\ Len(last.sent) = 1
    /\ IsCreateSubscription(last.sent[1], "new")
    /\ last.out.ok

-----------------------------------------------------------------------------
\* the response is a 2xx
Succeeds(resp) == resp.kind = "response" /\ resp.status >= 200 /\ resp.status < 300

\* the response is a 2xx whose body holds a data array
HoldsArray(resp) ==
    /\ Succeeds(resp) /\ resp.status # 204
    /\ resp.data.t = "object" /\ resp.data.hasData

\* the handler getApiSpecifications ran and its discovery call was answered
SpecificationsCall == last.op = "getApiSpecifications" /\ Len(last.resps) >= 1

(* C15: get_api_specifications returns an empty specifications list,       *)
(* without failing and without any content request, whenever the discovery *)
(* call succeeds with zero specifications, with no data array, or with a   *)
(* body of another shape (the {success: true} of a 204 included).          *)
C15_NothingDiscoveredIsEmpty ==
    (/\ SpecificationsCall
     /\ Succeeds(last.resps[1])
     /\ (HoldsArray(last.resps[1]) => last.resps[1].data.data = << >>)) =>
        /\ last.out.ok
        /\ last.out.value.specifications = << >>
        /\ Len(last.resps) = 1
        /\ Len(OwnRequests) = 1

\* a discovery answered 204: an empty list, one request
C15_Witness ==
    /\ SpecificationsCall
    /\ last.resps[1].kind = "response" /\ last.resps[1].status = 204
    /\ last.out.ok
    /\ last.out.value.specifications = << >>
    /\ Len(OwnRequests) = 1

-----------------------------------------------------------------------------
\* the specifications the discovery call of the operation returned
Discovered == last.resps[1].data.data

\* the number of content requests the operation made
Fetched == Len(last.resps) - 1

\* the content request of the i-th specification was answered with a content object
ContentReturned(i) == Succeeds(last.resps[i + 1]) /\ last.resps[i + 1].data.t = "object"

\* the request asks for the content of specification id of the API of the call
IsContentRequest(req, id) ==
    /\ req.method = "GET"
    /\ req.url = portalBaseUrls[CalledPortal] \o
                    <<"/", "api", "/", "v3", "/", "apis", "/", last.args.raw.apiId,
                      "/", "specifications", "/", id>>

\* the request is the discovery call of the operation
IsDiscoveryRequest(req) ==
    /\ req.method = "GET"
    /\ req.url = portalBaseUrls[CalledPortal] \o
                    <<"/", "api", "/", "v3", "/", "apis", "/", last.args.raw.apiId,
                      "/", "specifications">>

(* C16: get_api_specifications with N discovered specifications sends one  *)
(* discovery request and then one content request per specification, one   *)
(* after the other in the order of discovery; when a content request       *)
(* fails, no later one is sent and the operation fails with that error,    *)
(* without a partial list; when all succeed the list has the N entries.    *)
C16_DiscoveryThenContents ==
    (SpecificationsCall /\ HoldsArray(last.resps[1])) =>
        /\ Fetched <= Len(Discovered)
        /\ Len(OwnRequests) = Fetched + 1
        /\ IsDiscoveryRequest(OwnRequests[1])
        /\ \A i \in 1..Fetched : IsContentRequest(OwnRequests[i + 1], Discovered[i].id)
        /\ \A i \in 1..(Fetched - 1) : ContentReturned(i)
        /\ IF Fetched = 0 \/ ContentReturned(Fetched)
           THEN /\ Fetched = Len(Discovered)
                /\ last.out.ok
                /\ Len(last.out.value.specifications) = Len(Discovered)
                /\ \A i \in 1..Fetched :
                      /\ last.out.value.specifications[i].id = Discovered[i].id
                      /\ last.out.value.specifications[i].content =
                            last.resps[i + 1].data.content
           ELSE /\ ~last.out.ok
                /\ FailsRequest(last.resps[Fetched + 1]) =>
                      IsErrorOf(last.out.error, last.resps[Fetched + 1])

\* two specifications discovered, the content request of the first answered 404: the
\* second is never asked for
C16_Witness ==
    /\ SpecificationsCall /\ HoldsArray(last.resps[1])
    /\ Len(Discovered) = 2
    /\ Fetched = 1
    /\ last.resps[2] = Response(404, JObjMsg("denied"), << >>)
    /\ Len(OwnRequests) = 2
    /\ ~last.out.ok
    /\ last.out.error.message = <<"API Error (Status ", "404", ")", ": ", "denied">>

-----------------------------------------------------------------------------
\* the operation is a handler of a tool
HandlerCall ==
    last.op \in {"listPortals", "listApis", "listApplications", "listSubscriptions",
                 "getApiSpecifications", "subscribeToApi", "generateApiKey"}

\* the operation is a list handler
ListCall == last.op \in {"listPortals", "listApis", "listApplications", "listSubscriptions"}

\* a flat record holds a secret that was issued
RecordLeaks(rec) == \E f \in DOMAIN rec : rec[f] \in secrets

\* a list of flat records holds a secret that was issued
ListLeaks(entries) == \E i \in DOMAIN entries : RecordLeaks(entries[i])

\* a string built of pieces holds a secret that was issued
PiecesLeak(pieces) == \E i \in DOMAIN pieces : pieces[i] \in secrets

\* the result of the operation holds a secret that was issued
ResultLeaks ==
    IF ~last.out.ok THEN PiecesLeak(last.out.error.message)
    ELSE IF ListCall THEN ListLeaks(last.out.value.entries)
    ELSE IF last.op = "getApiSpecifications" THEN ListLeaks(last.out.value.specifications)
    ELSE IF last.op = "subscribeToApi" THEN RecordLeaks(last.out.value.subscription)
    ELSE IF LoginCall THEN last.out.value.authentication \in secrets
    ELSE FALSE

\* the client holds a secret that was issued
ClientRetains ==
    \/ \E q \in DOMAIN portalBaseUrls : PiecesLeak(portalBaseUrls[q])
    \/ \E q \in DOMAIN portalAuthCookies : PiecesLeak(portalAuthCookies[q])
    \/ PiecesLeak(adminBaseUrl)
    \/ apiKey \in secrets

\* the upstream answer the operation consumed holds a record with an issued secret
UpstreamHoldsSecret ==
    /\ Len(last.resps) = 1 /\ HoldsArray(last.resps[1])
    /\ \E i \in DOMAIN last.resps[1].data.data :
          /\ "credential" \in DOMAIN last.resps[1].data.data[i]
          /\ last.resps[1].data.data[i].credential \in secrets

(* C17: the secret generate_api_key returned appears only in that          *)
(* response: after any sequence of operations the result of no other tool  *)
(* (list_applications, list_subscriptions, or any other) holds a field     *)
(* with the secret, and the client keeps no copy of it.                    *)
C17_SecretOnlyInItsResponse ==
    /\ ~ClientRetains
    /\ ((HandlerCall \/ LoginCall) /\ last.op # "generateApiKey") => ~ResultLeaks

\* a key was issued, and a later list_applications whose upstream records carry the
\* secret returns applications without it
C17_Witness ==
    /\ secrets = {"K1"}
    /\ last.op = "listApplications"
    /\ UpstreamHoldsSecret
    /\ last.out.ok
    /\ Len(last.out.value.entries) >= 1
    /\ ~ResultLeaks

-----------------------------------------------------------------------------
\* the page size the caller asked for, 10 when none
RequestedPageSize ==
    IF last.args.raw.pageSize = UNDEF THEN "10" ELSE last.args.raw.pageSize

\* the page number the caller asked for, 1 when none
RequestedPageNumber ==
    IF last.args.raw.pageNumber = UNDEF THEN "1" ELSE last.args.raw.pageNumber

(* C18: every list operation (list_portals, list_apis, list_applications,  *)
(* list_subscriptions) whose upstream call succeeds returns metadata with  *)
(* pageSize equal to the requested pageSize and pageNumber equal to the    *)
(* requested pageNumber, 1 when omitted, whatever the shape of the         *)
(* upstream body.                                                          *)
C18_PaginationRoundTrip ==
    (ListCall /\ Len(last.resps) = 1 /\ Succeeds(last.resps[1])) =>
        /\ last.out.ok
        /\ last.out.value.metadata.pageSize = RequestedPageSize
        /\ last.out.value.metadata.pageNumber = RequestedPageNumber

-----------------------------------------------------------------------------
\* rec.name of an upstream record, undefined when absent
FieldOf(rec, name) == IF name \in DOMAIN rec THEN rec[name] ELSE UNDEF

\* the entry or subscription object has the identifiers and status of the upstream record
MatchesRegistration(entry, rec) ==
    /\ entry.subscriptionId = FieldOf(rec, "id")
    /\ entry.apiId = FieldOf(rec, "api_id")
    /\ entry.applicationId = FieldOf(rec, "application_id")
    /\ entry.status = FieldOf(rec, "status")

(* C19: list_subscriptions, for every successful upstream response whose   *)
(* data array holds k items (k >= 0), returns exactly k subscription       *)
(* entries, the i-th with the subscriptionId, apiId, applicationId and     *)
(* status of the i-th upstream item.                                       *)
C19_SubscriptionsNormalized ==
    (/\ last.op = "listSubscriptions"
     /\ Len(last.resps) = 1
     /\ HoldsArray(last.resps[1])) =>
        /\ last.out.ok
        /\ Len(last.out.value.entries) = Len(last.resps[1].data.data)
        /\ \A i \in DOMAIN last.resps[1].data.data :
              MatchesRegistration(last.out.value.entries[i], last.resps[1].data.data[i])

-----------------------------------------------------------------------------
(* C20: on success subscribe_to_api returns a subscription object whose    *)
(* subscriptionId, apiId, applicationId and status are the id, api_id,     *)
(* application_id and status of the upstream create-subscription response. *)
C20_SubscriptionOfResponse ==
    (/\ last.op = "subscribeToApi"
     /\ last.out.ok
     /\ Len(last.resps) >= 1
     /\ last.resps[Len(last.resps)].data.t = "object") =>
        MatchesRegistration(last.out.value.subscription, last.resps[Len(last.resps)].data)

-----------------------------------------------------------------------------
\* the operation is a tool invocation, run by the dispatcher
ToolCall == HandlerCall \/ last.op = "authenticate_developer_portal"

(* C21: every error a handler throws during a tool invocation is caught at *)
(* the dispatcher and rendered as a text result flagged isError, whose     *)
(* text is "Error: ", the error's message and the troubleshooting tips; no *)
(* invocation ends without a tool result, and the result of a successful   *)
(* handler is not flagged.                                                 *)
C21_ErrorsRenderedAtDispatch ==
    ToolCall =>
        /\ last.tool # NoTool
        /\ last.tool.isError = ~last.out.ok
        /\ ~last.out.ok =>
              last.tool.text = <<"Error: ">> \o last.out.error.message \o TroubleshootingTips

\* list_portals answered 204: the handler's TypeError comes back as an error result
C21_Witness ==
    /\ last.op = "listPortals"
    /\ ~last.out.ok
    /\ last.out.error.name = "TypeError"
    /\ last.tool.isError
    /\ last.tool.text[1] = "Error: "
    /\ last.tool.text[2] = "Cannot read properties of "

-----------------------------------------------------------------------------
\* 1 when the response was asked for, 0 when the request was never sent
Asked(resp) == IF resp.kind = "notAsked" THEN 0 ELSE 1

\* the request is the admin list-portals call of the resolver
IsListPortalsRequest(req) ==
    /\ req.method = "GET"
    /\ req.url = AdminHost \o <<"/", "v3", "/", "portals", "?page[size]=", "10">>

(* C22: no upstream call is retried: one invocation of the generic request *)
(* path sends at most one request to its target, preceded by at most one   *)
(* admin list-portals request, sent only when the portal is not resolved   *)
(* yet; when either fails the invocation fails with one error and nothing  *)
(* further is sent.                                                        *)
C22_NoRetry ==
    GenericCall =>
        /\ Len(last.sent) = Asked(last.listResp) + Asked(last.resp)
        /\ Asked(last.listResp) = 1 =>
              /\ CalledPortal \notin DOMAIN last.before.urls
              /\ IsListPortalsRequest(last.sent[1])
        /\ (Asked(last.listResp) = 1 /\ ~Succeeds(last.listResp)) =>
              /\ ~last.out.ok
              /\ Len(last.sent) = 1
        /\ (Asked(last.resp) = 1 /\ ~Succeeds(last.resp)) =>
              /\ ~last.out.ok
              /\ Asked(last.listResp) = 1 => last.sent[1] # last.sent[2]

\* the portal is resolved by one lookup and the target answers 404: two requests, one error
C22_Witness ==
    /\ last.op = "kongRequest"
    /\ Asked(last.listResp) = 1 /\ Succeeds(last.listResp)
    /\ last.resp.kind = "response" /\ last.resp.status = 404
    /\ Len(last.sent) = 2
    /\ ~last.out.ok

-----------------------------------------------------------------------------
(* C23: both caches only grow: in every step a portal with an entry in the *)
(* resolved-URL mapping or in the session-cookie mapping keeps an entry,   *)
(* and a resolved-URL entry keeps its value.                               *)
C23_CachesOnlyGrow ==
    [][/\ DOMAIN portalBaseUrls \subseteq DOMAIN portalBaseUrls'
       /\ \A q \in DOMAIN portalBaseUrls : portalBaseUrls'[q] = portalBaseUrls[q]
       /\ DOMAIN portalAuthCookies \subseteq DOMAIN portalAuthCookies']_vars

\* a login on a portal that had both entries, answered without a token: both entries
\* are still there, the URL unchanged
C23_Witness ==
    /\ LoginCall
    /\ CalledPortal \in DOMAIN last.before.urls
    /\ CalledPortal \in DOMAIN last.before.cookies
    /\ last.out.ok
    /\ CarriedToken(last.resp.setCookie) = UNDEF
    /\ CalledPortal \in DOMAIN portalAuthCookies
    /\ portalBaseUrls[CalledPortal] = last.before.urls[CalledPortal]

-----------------------------------------------------------------------------
\* the request goes to the admin API
ToAdmin(req) == Begins(req.url, AdminHost)

\* the request goes to the resolved base URL of the portal the operation was called for
ToCalledPortal(req) ==
    /\ CalledPortal \in DOMAIN portalBaseUrls
    /\ Begins(req.url, portalBaseUrls[CalledPortal])

\* the Cookie header of the request is the one supplied for the call, or else the
\* cookie that was cached for the called portal when the operation began
CookieOfCalledPortal(req) ==
    IF SuppliedCookie # << >>
    THEN req.headers["Cookie"] = SuppliedCookie
    ELSE /\ CalledPortal \in DOMAIN last.before.cookies
         /\ req.headers["Cookie"] = last.before.cookies[CalledPortal]

(* C25: credentials are never sent to the wrong destination: of all the    *)
(* requests an operation sends, after any sequence of operations, one with *)
(* an Authorization header goes to the admin API and carries the bearer    *)
(* key, one with a Cookie header goes to the resolved base URL of the      *)
(* portal it was called for, and a cached cookie attached to it is the one *)
(* cached for that portal; no request carries both.                        *)
C25_CredentialsToTheirDestination ==
    \A i \in DOMAIN last.sent :
        /\ ~Lacks(last.sent[i], "Authorization") =>
              /\ ToAdmin(last.sent[i])
              /\ last.sent[i].headers["Authorization"] = <<"Bearer ", apiKey>>
              /\ Lacks(last.sent[i], "Cookie")
        /\ ~Lacks(last.sent[i], "Cookie") =>
              /\ ToCalledPortal(last.sent[i])
              /\ ~ToAdmin(last.sent[i])
              /\ CookieOfCalledPortal(last.sent[i])

\* two portals have different cookies cached; a request for one of them carries its own
C25_Witness ==
    /\ PortalCall /\ TargetSent
    /\ SuppliedCookie = << >>
    /\ \E q \in DOMAIN last.before.cookies :
          /\ q # CalledPortal
          /\ CalledPortal \in DOMAIN last.before.cookies
          /\ last.before.cookies[q] # last.before.cookies[CalledPortal]
    /\ Carries(TargetRequest, "Cookie", last.before.cookies[CalledPortal])
    /\ ToCalledPortal(TargetRequest)
    /\ Len(last.sent) = 1

-----------------------------------------------------------------------------
\* the mapping has for portal q what it had before the operation: the same entry, or none
SameEntry(now, before, q) ==
    /\ (q \in DOMAIN now) = (q \in DOMAIN before)
    /\ q \in DOMAIN now => now[q] = before[q]

\* every portal that has or had an entry in either cache
CachedPortals ==
    DOMAIN portalBaseUrls \cup DOMAIN portalAuthCookies
        \cup DOMAIN last.before.urls \cup DOMAIN last.before.cookies

(* C26: a login for portal P changes at most P's session-cookie entry and  *)
(* P's resolved-URL entry: whether it succeeds or fails the entries of     *)
(* every other portal in both caches are as before, and when it fails P's  *)
(* session-cookie entry is as before too.                                  *)
C26_LoginFrame ==
    LoginCall =>
        /\ \A q \in CachedPortals \ {CalledPortal} :
              /\ SameEntry(portalBaseUrls, last.before.urls, q)
              /\ SameEntry(portalAuthCookies, last.before.cookies, q)
        /\ ~last.out.ok => SameEntry(portalAuthCookies, last.before.cookies, CalledPortal)

\* another portal has a URL and a cookie cached; a login on P stores a new cookie for P
C26_Witness ==
    /\ LoginCall
    /\ last.out.ok
    /\ \E q \in DOMAIN last.before.cookies :
          q # CalledPortal /\ q \in DOMAIN last.before.urls
    /\ CalledPortal \in DOMAIN last.before.cookies
    /\ portalAuthCookies[CalledPortal] # last.before.cookies[CalledPortal]

-----------------------------------------------------------------------------
\* the login that has just run stored no cookie: it was rejected, or its accepted
\* response carried no portalaccesstoken cookie with a value
StoredNothing ==
    LoginCall /\ (~last.out.ok \/ CarriedToken(last.resp.setCookie) = UNDEF)

(* C27: after any sequence of logins the cached session cookie of a portal *)
(* is the token of the most recent login for it whose response carried a   *)
(* portalaccesstoken cookie (issued keeps that token: last write wins); a  *)
(* later login that was rejected or carried no such cookie leaves the      *)
(* cached cookie as it was, and the portal's requests go on carrying it.   *)
C27_LastWriteWins ==
    /\ DOMAIN portalAuthCookies = DOMAIN issued
    /\ \A q \in DOMAIN issued : portalAuthCookies[q] = <<"portalaccesstoken=", issued[q]>>
    /\ StoredNothing => SameEntry(portalAuthCookies, last.before.cookies, CalledPortal)
    /\ (/\ PortalCall /\ TargetSent /\ SuppliedCookie = << >>
        /\ CalledPortal \in DOMAIN portalAuthCookies) =>
           TargetRequest.headers["Cookie"] = <<"portalaccesstoken=", issued[CalledPortal]>>

\* a portal whose login had issued T1 logs in again and is issued T2
C27_Witness ==
    /\ LoginCall /\ last.out.ok
    /\ CalledPortal \in DOMAIN last.before.cookies
    /\ last.before.cookies[CalledPortal] = <<"portalaccesstoken=", "T1">>
    /\ CarriedToken(last.resp.setCookie) = "T2"
    /\ portalAuthCookies[CalledPortal] = <<"portalaccesstoken=", "T2">>

-----------------------------------------------------------------------------
\* the operation asked for the listing and ended in the resolution of its portal
FailedResolving ==
    /\ PortalCall \/ LoginCall
    /\ last.listResp.kind # "notAsked"
    /\ last.resp.kind = "notAsked"
    /\ ~last.out.ok

(* C28: an error raised while the portal's base URL is resolved keeps its  *)
(* kind when it reaches the caller, through a portal-scoped request as     *)
(* through a login: a portal absent from the listing surfaces as Not       *)
(* Found, a non-2xx answer to the listing as an Upstream Error with its    *)
(* status code, and neither as a Request Error.                            *)
C28_ResolutionErrorKeepsKind ==
    FailedResolving =>
        /\ NotListed(CalledPortal, last.listResp) => IsNotFound(last.out, CalledPortal)
        /\ (last.listResp.kind = "response" /\ ~Succeeds(last.listResp)) =>
              Begins(last.out.error.message,
                     <<"API Error (Status ", ToString(last.listResp.status), ")">>)

-----------------------------------------------------------------------------
\* the operation asked the admin API for the listing of portals: a listing was there
\* to be consumed and the portal had no resolved URL
Looked ==
    /\ last.listResp.kind # "notAsked"
    /\ CalledPortal \notin DOMAIN last.before.urls

\* the listing says that there are more portals than the page holds
MorePages(listResp) ==
    /\ listResp.kind = "response" /\ "meta" \in DOMAIN listResp.data
    /\ listResp.data.meta.page.total # listResp.data.meta.page.size

\* the error holds getPortalBaseUrl's Not Found message for the portal
ReportsNotFound(out, portalId) ==
    /\ ~out.ok
    /\ \E i \in DOMAIN out.error.message :
          /\ i + 2 \in DOMAIN out.error.message
          /\ SubSeq(out.error.message, i, i + 2) = <<"Portal with ID ", portalId, " not found">>

(* C29: an operation that resolves a portal sends one admin list-portals   *)
(* request, with page size 10 and no page number, and no further request   *)
(* to the admin API; a portal absent from the page that came back is       *)
(* reported Not Found without another request and without a cache entry,   *)
(* also when the listing's metadata tells of more pages.                   *)
C29_SinglePageLookup ==
    Looked =>
        /\ Len(last.sent) >= 1
        /\ IsListPortalsRequest(last.sent[1])
        /\ \A i \in 2..Len(last.sent) : ~ToAdmin(last.sent[i])
        /\ NotListed(CalledPortal, last.listResp) =>
              /\ ReportsNotFound(last.out, CalledPortal)
              /\ Len(last.sent) = 1
              /\ CalledPortal \notin DOMAIN portalBaseUrls

\* the first page of several does not hold the portal: Not Found after one request
C29_Witness ==
    /\ last.op = "getPortalBaseUrl"
    /\ Looked /\ MorePages(last.listResp)
    /\ NotListed(CalledPortal, last.listResp)
    /\ IsNotFound(last.out, CalledPortal)
    /\ Len(last.sent) = 1

-----------------------------------------------------------------------------
\* the listing the operation consumed holds a record of portal q with canonical domain d
ListedWith(q, url) ==
    /\ Looked /\ Succeeds(last.listResp)
    /\ last.listResp.data.t = "object" /\ last.listResp.data.hasData
    /\ \E i \in DOMAIN last.listResp.data.data :
          /\ last.listResp.data.data[i].id = q
          /\ last.listResp.data.data[i].canonical_domain # UNDEF
          /\ url = <<"https://", last.listResp.data.data[i].canonical_domain>>

(* C30: every entry of the resolved-URL cache maps a portal to https://<d>, *)
(* d the canonical domain of a record with that identifier in an admin     *)
(* listing: an operation leaves every entry as it was, or writes for its   *)
(* portal the domain of such a record of the listing it consumed; it       *)
(* writes nothing from a record without a canonical domain, and nothing    *)
(* from any other source.                                                  *)
C30_EntriesComeFromListings ==
    last.op # "idle" =>
        \A q \in DOMAIN portalBaseUrls :
            \/ q \in DOMAIN last.before.urls /\ portalBaseUrls[q] = last.before.urls[q]
            \/ q = CalledPortal /\ ListedWith(q, portalBaseUrls[q])

====
